---- MODULE Spec2Model ----
(***************************************************************************)
(* State-machine model of the cstack B+tree store: pager (page cache over  *)
(* a backing file), leaf and internal node views of a page buffer, search, *)
(* insert with leaf split, root creation, internal-node insert and the     *)
(* leaf-chain scan used by select.                                         *)
(*                                                                         *)
(* A page buffer is modelled field by field.  The two node kinds overlay   *)
(* the same bytes: num_cells/num_keys share one u32 (field n), and         *)
(* next_leaf/right_child share the next u32 (field link).  The body of an  *)
(* internal node (an array of u32 words) lies inside the bytes of leaf     *)
(* cell 0; field c0w tells which of the two views wrote those bytes last.  *)
(***************************************************************************)
EXTENDS Integers, Sequences, FiniteSets, TLC

(* ------------------------------ bounds -------------------------------- *)

\* Largest id the environment submits; ids are 0..MaxKey.
MaxKey == 7

\* Cells per leaf.  The build has (PAGE_SIZE - HEADER_SIZE) / CELL_SIZE = 13;
\* the model keeps the split arithmetic and scales the capacity down.
LEAF_NODE_MAX_CELLS == 2

\* Depth allowed to the recursive descent of find before the model gives up
\* (the code recurses without a limit).
MaxDescent == 3

\* How many times the model lets a process open the file, and the largest id
\* submitted in the runs that close and reopen it.
MaxOpens == 2
MaxPersistKey == 4

\* Page numbers 0..MaxProbe, and the three around TABLE_MAX_PAGES, are the
\* ones handed to Pager::page in the runs that exercise the pager alone.
MaxProbe == 6

\* The largest id of the insert statements in the runs that vary the lengths
\* of the two strings of a row.
MaxRowKey == 1

\* The ids -1..MaxSmallId, and the ids around the largest i32 and u32, are
\* the ones of the insert statements in the runs that vary the id alone.
MaxSmallId == 2

\* The width of the id types in the model: the i32 that prepare_insert parses
\* has IdBits bits and the u32 key as many, so that the ids past the largest
\* i32 are numbers the model checker can hold.
IdBits == 5

\* The largest id of the `insert <id> a b` lines in the runs that read
\* command lines.
MaxLineId == 3

\* The largest number of whole pages of the backing stores handed to
\* Pager::open in the runs that open stores of any length.
MaxStorePages == 3

(* ----------------------------- constants ------------------------------ *)

TABLE_MAX_PAGES == 100
PAGE_SIZE == 4096
INTERNAL_NODE_MAX_CELLS == 3
NODE_INTERNAL == 0
NODE_LEAF == 1
U32_SIZE == 4
ID_SIZE == 4
USERNAME_SIZE == 32
EMAIL_SIZE == 255
ID_OFFSET == 0
USERNAME_SIZE_OFFSET == ID_OFFSET + ID_SIZE
USERNAME_OFFSET == USERNAME_SIZE_OFFSET + U32_SIZE
EMAIL_SIZE_OFFSET == USERNAME_OFFSET + USERNAME_SIZE
EMAIL_OFFSET == EMAIL_SIZE_OFFSET + U32_SIZE
ROW_SIZE == ID_SIZE + U32_SIZE + USERNAME_SIZE + U32_SIZE + EMAIL_SIZE
INTERNAL_NODE_CHILD_SIZE == U32_SIZE
INTERNAL_NODE_KEY_SIZE == U32_SIZE
INTERNAL_NODE_CELL_SIZE == INTERNAL_NODE_CHILD_SIZE + INTERNAL_NODE_KEY_SIZE
LEAF_NODE_RIGHT_SPLIT_COUNT == (LEAF_NODE_MAX_CELLS + 1) \div 2
LEAF_NODE_LEFT_SPLIT_COUNT == (LEAF_NODE_MAX_CELLS + 1) - LEAF_NODE_RIGHT_SPLIT_COUNT
root_page_num == 0

Keys == 0..MaxKey
PersistKeys == 0..MaxPersistKey

\* Marker for bytes of a row read as a u32 word (and the reverse).
Junk == 0 - 1

\* `let x = v;` followed by the statements K that use x: v is evaluated once.
With(v, K(_)) == K(v)

(* ------------------------------- rows --------------------------------- *)

\* The row the environment submits for id k: the first submission of an id
\* carries one username, a re-submission of the same id another one, so a
\* stored row tells which submission wrote it.
FirstName == <<1>>
AgainName == <<2, 2>>
TheEmail == <<3>>
RowFor(k, again) ==
    [id |-> k, username |-> IF again THEN AgainName ELSE FirstName, email |-> TheEmail]

\* A ROW_SIZE slot of a leaf cell: id, the two length fields and the two
\* string areas (bytes written so far; the rest of each area is zero).
ZeroSlot == [id |-> 0, ulen |-> 0, ubuf |-> <<>>, elen |-> 0, ebuf |-> <<>>]
JunkSlot == [id |-> Junk, ulen |-> 0, ubuf |-> <<>>, elen |-> 0, ebuf |-> <<>>]

\* copy_from_slice of `bytes` over the start of a string area
Overwrite(area, bytes) ==
    IF Len(bytes) >= Len(area) THEN bytes
    ELSE bytes \o SubSeq(area, Len(bytes) + 1, Len(area))

\* A faulty serialize_row that writes each string where the other belongs,
\* which C19_RoundTrip must reject
serialize_row_swapped(source, destination) ==
    [id |-> source.id,
     ulen |-> Len(source.email),
     ubuf |-> Overwrite(destination.ubuf, source.email),
     elen |-> Len(source.username),
     ebuf |-> Overwrite(destination.ebuf, source.username)]

serialize_row(source, destination) ==
    [id |-> source.id,
     ulen |-> Len(source.username),
     ubuf |-> Overwrite(destination.ubuf, source.username),
     elen |-> Len(source.email),
     ebuf |-> Overwrite(destination.ebuf, source.email)]

deserialize_row(source) ==
    [id |-> source.id,
     username |-> SubSeq(source.ubuf, 1, source.ulen),
     email |-> SubSeq(source.ebuf, 1, source.elen)]

\* The end of each range of the destination that serialize_row writes
SerializeEnds(source) ==
    {ID_OFFSET + ID_SIZE,
     USERNAME_SIZE_OFFSET + U32_SIZE,
     USERNAME_OFFSET + Len(source.username),
     EMAIL_SIZE_OFFSET + U32_SIZE,
     EMAIL_OFFSET + Len(source.email)}

\* A string of len bytes, one byte value per position
Str(len, seed) == [i \in 1..len |-> (seed + i) % 256]

\* `i32::from_str(id_string).unwrap()`: the id is parsed as an i32 and the
\* parse error of a number outside the i32 range is unwrapped, a panic
I32_MAX == 2^(IdBits - 1) - 1
I32_MIN == 0 - 2^(IdBits - 1)
U32_MAX == 2^IdBits - 1
ParseIntPanic == "called Result::unwrap() on an Err value: ParseIntError"

\* A faulty prepare_insert that does not look at the lengths, which
\* C20_LengthLimits must reject
prepare_insert_unchecked(id, username, email) ==
    IF id < I32_MIN \/ id > I32_MAX THEN [res |-> ParseIntPanic, row |-> <<>>]
    ELSE IF id < 0 THEN [res |-> "NegativeId", row |-> <<>>]
    ELSE [res |-> "ok", row |-> [id |-> id, username |-> username, email |-> email]]

\* prepare_insert on `insert <id> <username> <email>`
prepare_insert(id, username, email) ==
    IF id < I32_MIN \/ id > I32_MAX THEN [res |-> ParseIntPanic, row |-> <<>>]
    ELSE IF id < 0 THEN [res |-> "NegativeId", row |-> <<>>]
    ELSE IF Len(username) > USERNAME_SIZE \/ Len(email) > EMAIL_SIZE
        THEN [res |-> "StringTooLong", row |-> <<>>]
    ELSE [res |-> "ok", row |-> [id |-> id, username |-> username, email |-> email]]

\* A command line is the sequence of its characters.  input.split(" "): the
\* fields of a line between single spaces
RECURSIVE Split(_, _)
Split(line, field) ==
    IF line = <<>> THEN <<field>>
    ELSE IF Head(line) = " " THEN <<field>> \o Split(Tail(line), <<>>)
    ELSE Split(Tail(line), Append(field, Head(line)))

\* i32::from_str: an optional sign, then decimal digits
Digits == <<"0", "1", "2", "3", "4", "5", "6", "7", "8", "9">>
IsDigit(c) == \E d \in DOMAIN Digits : Digits[d] = c
DigitValue(c) == (CHOOSE d \in DOMAIN Digits : Digits[d] = c) - 1
RECURSIVE DecimalValue(_, _)
DecimalValue(digits, acc) ==
    IF digits = <<>> THEN acc
    ELSE DecimalValue(Tail(digits), acc * 10 + DigitValue(Head(digits)))
\* (a field that is no number is an Err like a number outside the i32 range)
NotANumber == I32_MAX + 1
i32_from_str(field) ==
    With(IF field # <<>> /\ Head(field) \in {"-", "+"} THEN Tail(field) ELSE field,
         LAMBDA digits :
            IF digits = <<>> \/ \E i \in DOMAIN digits : ~IsDigit(digits[i])
            THEN NotANumber
            ELSE IF field # <<>> /\ Head(field) = "-" THEN 0 - DecimalValue(digits, 0)
            ELSE DecimalValue(digits, 0))

InsertWord == <<"i", "n", "s", "e", "r", "t">>
SelectLine == <<"s", "e", "l", "e", "c", "t">>
SlicePanic == "byte index 6 is out of bounds"

\* prepare_insert on the line: the fields after the keyword, then the
\* checks of prepare_insert on them
prepare_insert_line(line) ==
    With(Split(line, <<>>), LAMBDA fields :
        IF Len(fields) < 4 THEN [res |-> "SyntaxError", row |-> <<>>]
        ELSE prepare_insert(i32_from_str(fields[2]), fields[3], fields[4]))

\* Statement::try_from: `&value[..6]` panics on a line of fewer than six bytes
Statement_try_from(value) ==
    IF Len(value) < 6 THEN [res |-> SlicePanic, row |-> <<>>]
    ELSE IF SubSeq(value, 1, 6) = InsertWord THEN prepare_insert_line(value)
    ELSE IF value = SelectLine THEN [res |-> "select", row |-> <<>>]
    ELSE [res |-> "UnrecognizedStatement", row |-> <<>>]

(* ------------------------------ pages --------------------------------- *)

ZeroCell == [key |-> 0, row |-> ZeroSlot]

\* key(i) of an internal node is read at `internal_node_cell.add(CHILD_SIZE)`
\* where internal_node_cell is a *mut u32: the offset counts u32 elements.
LastWord == (INTERNAL_NODE_MAX_CELLS * INTERNAL_NODE_CELL_SIZE) \div U32_SIZE + INTERNAL_NODE_CHILD_SIZE
WordIdx == 0..LastWord
CellIdx == 0..(LEAF_NODE_MAX_CELLS - 1)
ZeroWords == [j \in WordIdx |-> 0]

\* Box::new([0u8; PAGE_SIZE])
ZeroPage ==
    [type |-> NODE_INTERNAL, is_root |-> FALSE, parent |-> 0, n |-> 0, link |-> 0,
     c0w |-> FALSE, cells |-> [i \in CellIdx |-> ZeroCell], words |-> ZeroWords]

(* leaf view *)
LeafCell(p, i) ==
    IF i = 0 /\ p.c0w THEN [key |-> p.words[0], row |-> JunkSlot] ELSE p.cells[i]
LeafKey(p, i) == LeafCell(p, i).key
LeafValue(p, i) == LeafCell(p, i).row
SetLeafCell(p, i, c) ==
    IF i = 0 THEN [p EXCEPT !.c0w = FALSE, !.cells[0] = c, !.words = ZeroWords]
    ELSE [p EXCEPT !.cells[i] = c]
num_cells(p) == p.n
next_leaf(p) == p.link

(* internal view *)
Word(p, j) ==
    IF p.c0w THEN p.words[j]
    ELSE IF j = 0 THEN p.cells[0].key
    ELSE IF p.cells[0].row = ZeroSlot THEN 0 ELSE Junk
SetWord(p, j, v) ==
    [p EXCEPT !.c0w = TRUE,
              !.words = [[k \in WordIdx |-> Word(p, k)] EXCEPT ![j] = v],
              !.cells[0] = ZeroCell]
num_keys(p) == p.n
right_child(p) == p.link

\* InternalNode::cell: the u32 at HEADER_SIZE + cell_num * CELL_SIZE
CellWord(cell_num) == (cell_num * INTERNAL_NODE_CELL_SIZE) \div U32_SIZE
\* InternalNode::key / set_key: CHILD_SIZE u32 elements after the cell
KeyWord(key_num) == CellWord(key_num) + INTERNAL_NODE_CHILD_SIZE

InternalCell(p, cell_num) == Word(p, CellWord(cell_num))
InternalKey(p, key_num) == Word(p, KeyWord(key_num))
SetInternalCell(p, cell_num, v) == SetWord(p, CellWord(cell_num), v)
SetInternalKey(p, key_num, v) == SetWord(p, KeyWord(key_num), v)

(* ------------------------------ pager --------------------------------- *)

\* A pager value: the cache (a page per populated slot), num_pages, the
\* file length in bytes seen at open, and the message of the fatal error
\* that ended the process ("" while it runs).
NoError == ""
Failed(P) == P.fatal # NoError
Fail(P, msg) == IF Failed(P) THEN P ELSE [P EXCEPT !.fatal = msg]

\* What read() leaves in a zeroed buffer for page page_num of file f
ReadPage(f, page_num) == IF page_num < Len(f) THEN f[page_num + 1] ELSE ZeroPage

\* A faulty get_page that reads a stored page again on every call, which
\* C34_NoEviction must reject
get_page_reload(P, f, page_num) ==
    IF Failed(P) THEN P
    ELSE IF page_num >= TABLE_MAX_PAGES THEN Fail(P, "index out of bounds")
    ELSE IF page_num \in DOMAIN P.pages /\ page_num >= Len(f) THEN P
    ELSE [P EXCEPT !.pages = (page_num :> ReadPage(f, page_num)) @@ P.pages,
                   !.num_pages = IF page_num >= P.num_pages
                                 THEN page_num + 1 ELSE P.num_pages]

get_page(P, f, page_num) ==
    IF Failed(P) THEN P
    ELSE IF page_num > TABLE_MAX_PAGES
        THEN Fail(P, "Tried to fetch page number out of bounds")
    ELSE IF page_num >= TABLE_MAX_PAGES
        THEN Fail(P, "index out of bounds")
    ELSE IF page_num \in DOMAIN P.pages THEN P
    ELSE LET file_pages == (P.file_length \div PAGE_SIZE)
                           + (IF P.file_length % PAGE_SIZE # 0 THEN 1 ELSE 0)
             page == IF page_num <= file_pages THEN ReadPage(f, page_num) ELSE ZeroPage
         IN [P EXCEPT !.pages = (page_num :> page) @@ P.pages,
                      !.num_pages = IF page_num >= P.num_pages
                                    THEN page_num + 1 ELSE P.num_pages]

\* A faulty get_unused_page_num that hands out the last page in use, which
\* C16_DenseAllocation must reject
get_unused_page_num_last(P) == P.num_pages - 1

get_unused_page_num(P) == P.num_pages

\* The buffer of a populated slot
Buf(P, page_num) == P.pages[page_num]
SetBuf(P, page_num, p) == [P EXCEPT !.pages[page_num] = p]

\* CommonNode::new: a view keeps its own copy of the header it found
Header(p) == [type |-> p.type, is_root |-> p.is_root, parent |-> p.parent]

\* A faulty set_root that marks the node whatever it is told, which
\* C10_SingleRoot must reject
set_root_always(p, is_root) == [p EXCEPT !.is_root = TRUE]

\* CommonNode::set_root: the header is read from the buffer, changed and
\* written back
set_root(p, is_root) == [p EXCEPT !.is_root = is_root]

\* CommonNode::set_parent, likewise
set_parent(p, parent) == [p EXCEPT !.parent = parent]

\* LeafNode::new (initialize)
initialize_leaf_node(p) ==
    [set_root([p EXCEPT !.type = NODE_LEAF], FALSE) EXCEPT !.n = 0, !.link = 0]

\* A faulty InternalNode::new that leaves the node type as it finds it, which
\* C11_NodeTypes must reject
initialize_internal_node_untyped(p) == [set_root(p, FALSE) EXCEPT !.n = 0]

\* InternalNode::new (initialize)
initialize_internal_node(p) ==
    [set_root([p EXCEPT !.type = NODE_INTERNAL], FALSE) EXCEPT !.n = 0]

new_leaf_page(P, f, page_num) ==
    With(get_page(P, f, page_num), LAMBDA P1 :
        IF Failed(P1) THEN P1
        ELSE SetBuf(P1, page_num, initialize_leaf_node(Buf(P1, page_num))))

CorruptFile == "Db file is not a whole number of pages. Corrupt file."

\* A faulty Pager::open that takes a store of any length, which
\* C24_CorruptFile must reject
Pager_open_length_unchecked(file_length) ==
    [pages |-> <<>>, num_pages |-> file_length \div PAGE_SIZE,
     file_length |-> file_length, fatal |-> NoError]

\* Pager::open from the result of lseek(fd, 0, SEEK_END) on
Pager_open_length(file_length) ==
    IF file_length % PAGE_SIZE # 0
    THEN [pages |-> <<>>, num_pages |-> 0, file_length |-> file_length,
          fatal |-> CorruptFile]
    ELSE [pages |-> <<>>, num_pages |-> file_length \div PAGE_SIZE,
          file_length |-> file_length, fatal |-> NoError]

\* Pager::open on a file of whole pages
Pager_open(f) == Pager_open_length(Len(f) * PAGE_SIZE)

Table_open(f) ==
    With(Pager_open(f), LAMBDA P :
        IF Failed(P) \/ P.num_pages # 0 THEN P
        ELSE With(get_page(P, f, 0), LAMBDA P1 :
                 SetBuf(P1, 0, set_root(initialize_leaf_node(Buf(P1, 0)), TRUE))))

\* A faulty flush that writes nothing, which C3_Persistence must reject
flush_nothing(f, page_num, p) == f

\* Pager::flush of one page: write PAGE_SIZE bytes at page_num * PAGE_SIZE;
\* a write past the end of the file leaves zero pages in the gap.
flush(f, page_num, p) ==
    [i \in 1..(IF page_num + 1 > Len(f) THEN page_num + 1 ELSE Len(f)) |->
        IF i = page_num + 1 THEN p
        ELSE IF i <= Len(f) THEN f[i] ELSE ZeroPage]

RECURSIVE FlushFrom(_, _, _)
FlushFrom(P, f, i) ==
    IF i >= P.num_pages THEN f
    ELSE IF i \notin DOMAIN P.pages THEN FlushFrom(P, f, i + 1)
    ELSE FlushFrom(P, flush(f, i, Buf(P, i)), i + 1)

\* Pager::close: the file after every cached page below num_pages is flushed
Pager_close(P, f) == FlushFrom(P, f, 0)


(* ------------------------------ search -------------------------------- *)

RECURSIVE LeafSearch(_, _, _, _)
LeafSearch(p, key, min_index, one_past_max_index) ==
    IF one_past_max_index = min_index THEN min_index
    ELSE With((min_index + one_past_max_index) \div 2, LAMBDA index :
         With(LeafKey(p, index), LAMBDA key_at_index :
             IF key = key_at_index THEN index
             ELSE IF key < key_at_index THEN LeafSearch(p, key, min_index, index)
             ELSE LeafSearch(p, key, index + 1, one_past_max_index)))

\* LeafNode::find: the cell number of the cursor
leaf_node_find(p, key) == LeafSearch(p, key, 0, num_cells(p))

RECURSIVE ChildSearch(_, _, _, _)
ChildSearch(p, key, min_index, max_index) ==
    IF min_index = max_index THEN min_index
    ELSE With((min_index + max_index) \div 2, LAMBDA index :
             IF InternalKey(p, index) >= key THEN ChildSearch(p, key, min_index, index)
             ELSE ChildSearch(p, key, index + 1, max_index))

\* InternalNode::find_child
find_child(p, key) == ChildSearch(p, key, 0, num_keys(p))

\* A cursor: the pager after the descent, the leaf found (its page number
\* and the header copy of the view taken of it) and the cell number.
Cursor(P, page_num, cell_num) ==
    [P |-> P, page_num |-> page_num, cell_num |-> cell_num,
     hdr |-> IF Failed(P) THEN Header(ZeroPage) ELSE Header(Buf(P, page_num))]

\* InternalNode::child for child_num <= num_keys
child(p, child_num) ==
    IF child_num = num_keys(p) THEN right_child(p) ELSE InternalCell(p, child_num)

\* pager.page(child_num) of a u32 read from the node body
pager_page(P, f, page_num) ==
    IF page_num < 0 THEN Fail(P, "wild page number") ELSE get_page(P, f, page_num)

\* InternalNode::find
RECURSIVE internal_node_find(_, _, _, _, _)
internal_node_find(P, f, page_num, key, fuel) ==
    With(find_child(Buf(P, page_num), key), LAMBDA child_index :
        IF child_index > num_keys(Buf(P, page_num))
        THEN Cursor(Fail(P, "Tried to access child_num > num_keys"), 0, 0)
        ELSE With(child(Buf(P, page_num), child_index), LAMBDA child_num :
             With(pager_page(P, f, child_num), LAMBDA P1 :
                 IF Failed(P1) THEN Cursor(P1, 0, 0)
                 ELSE IF Buf(P1, child_num).type = NODE_LEAF
                     THEN Cursor(P1, child_num, leaf_node_find(Buf(P1, child_num), key))
                 ELSE IF fuel = 0 THEN Cursor(Fail(P1, "stack overflow"), 0, 0)
                 ELSE internal_node_find(P1, f, child_num, key, fuel - 1))))

\* Table::find
Table_find(P, f, key) ==
    With(get_page(P, f, root_page_num), LAMBDA P1 :
        IF Failed(P1) THEN Cursor(P1, 0, 0)
        ELSE IF Buf(P1, root_page_num).type = NODE_INTERNAL
            THEN internal_node_find(P1, f, root_page_num, key, MaxDescent)
        ELSE Cursor(P1, root_page_num, leaf_node_find(Buf(P1, root_page_num), key)))

(* ------------------------------ insert -------------------------------- *)

\* get_max_key is key(n - 1) in u32 arithmetic; on an empty node the
\* subtraction overflows (a panic in a checked build, a read far outside the
\* page otherwise).  Callers test MaxKeyOverflows first.
MaxKeyOverflows(p) == p.n = 0
get_node_max_key(p) ==
    IF p.type = NODE_LEAF THEN LeafKey(p, num_cells(p) - 1)
    ELSE InternalKey(p, num_keys(p) - 1)

\* A faulty set_child that stores nothing, which C9_ParentPointers must reject
set_child_nothing(p, child_num, child_page_num) == p

\* InternalNode::set_child for child_num <= num_keys (a larger child_num
\* exits the process; callers test SetChildExits first)
SetChildExits(p, child_num) == child_num > num_keys(p)
set_child(p, child_num, child_page_num) ==
    IF child_num = num_keys(p) THEN [p EXCEPT !.link = child_page_num]
    ELSE SetInternalCell(p, child_num, child_page_num)

\* InternalNode::update_key
update_key(p, old_key, new_key) ==
    SetInternalKey(p, find_child(p, old_key), new_key)

\* Table::create_new_root, once the three pages are in the cache
NewRoot(P2, left_child_page_num, right_child_page_num) ==
    With(set_root(Buf(P2, root_page_num), FALSE), LAMBDA left_child :
    With([set_root(initialize_internal_node(Buf(P2, root_page_num)), TRUE) EXCEPT !.n = 1],
         LAMBDA root1 :
        IF SetChildExits(root1, 0)
            THEN Fail(P2, "Tried to access child_num > num_keys")
        ELSE IF MaxKeyOverflows(left_child)
            THEN Fail(P2, "attempt to subtract with overflow")
        ELSE With([SetInternalKey(set_child(root1, 0, left_child_page_num),
                                  0, get_node_max_key(left_child))
                      EXCEPT !.link = right_child_page_num], LAMBDA root3 :
             With(SetBuf(SetBuf(P2, left_child_page_num,
                                set_parent(left_child, root_page_num)),
                         root_page_num, root3), LAMBDA P3 :
                 SetBuf(P3, right_child_page_num,
                        set_parent(Buf(P3, right_child_page_num), root_page_num))))))

\* Table::create_new_root
create_new_root(P, f, right_child_page_num) ==
    With(get_page(get_page(P, f, root_page_num), f, right_child_page_num), LAMBDA P1 :
    With(get_page(P1, f, get_unused_page_num(P1)), LAMBDA P2 :
        IF Failed(P2) THEN P2
        ELSE NewRoot(P2, get_unused_page_num(P1), right_child_page_num)))

\* InternalNode::insert after the `original_num_keys >= MAX_CELLS` test:
\* self1 is the node with num_keys already incremented, P2 the pager with
\* the right child in the cache.
InsertCell(P2, parent_page_num, child_page_num, self1, index, child_max_key) ==
    With(num_keys(self1) - 1, LAMBDA original_num_keys :
    With(right_child(self1), LAMBDA right_child_page_num :
        IF MaxKeyOverflows(Buf(P2, right_child_page_num))
            THEN Fail(P2, "attempt to subtract with overflow")
        ELSE With(get_node_max_key(Buf(P2, right_child_page_num)), LAMBDA right_max :
            IF child_max_key > right_max
            THEN \* Replace right child
                 IF SetChildExits(self1, original_num_keys)
                 THEN Fail(P2, "Tried to access child_num > num_keys")
                 ELSE SetBuf(P2, parent_page_num,
                         [SetInternalKey(set_child(self1, original_num_keys,
                                                   right_child_page_num),
                                         original_num_keys, right_max)
                             EXCEPT !.link = child_page_num])
            ELSE IF index + 1 <= original_num_keys
                 \* "Make room": memcpy(self.cell(i) as *mut c_void,
                 \* self.cell(i - 1) as *mut c_void, CELL_SIZE) takes the child
                 \* page numbers stored in the cells as addresses.  The source is
                 \* a page number below TABLE_MAX_PAGES, an address in the first,
                 \* never mapped, page of the process: the read faults.
                 THEN Fail(P2, "SIGSEGV")
            ELSE IF SetChildExits(self1, index)
                 THEN Fail(P2, "Tried to access child_num > num_keys")
            ELSE SetBuf(P2, parent_page_num,
                        SetInternalKey(set_child(self1, index, child_page_num),
                                       index, child_max_key)))))

\* A faulty InternalNode::insert without the test of original_num_keys
\* against MAX_CELLS, which C13_InternalOverflow and C17_Occupancy must reject
internal_node_insert_unlimited(P, f, parent_page_num, child_page_num) ==
    With(get_page(P, f, child_page_num), LAMBDA P1 :
        IF Failed(P1) THEN P1
        ELSE IF MaxKeyOverflows(Buf(P1, child_page_num))
            THEN Fail(P1, "attempt to subtract with overflow")
        ELSE
        With(get_node_max_key(Buf(P1, child_page_num)), LAMBDA child_max_key :
        With(find_child(Buf(P1, parent_page_num), child_max_key), LAMBDA index :
        With([Buf(P1, parent_page_num) EXCEPT !.n = @ + 1], LAMBDA self1 :
            With(get_page(SetBuf(P1, parent_page_num, self1), f, right_child(self1)),
                 LAMBDA P2 :
                IF Failed(P2) THEN P2
                ELSE InsertCell(P2, parent_page_num, child_page_num,
                                self1, index, child_max_key))))))

\* InternalNode::insert on the node of parent_page_num
internal_node_insert(P, f, parent_page_num, child_page_num) ==
    With(get_page(P, f, child_page_num), LAMBDA P1 :
        IF Failed(P1) THEN P1
        ELSE IF MaxKeyOverflows(Buf(P1, child_page_num))
            THEN Fail(P1, "attempt to subtract with overflow")
        ELSE
        With(get_node_max_key(Buf(P1, child_page_num)), LAMBDA child_max_key :
        With(find_child(Buf(P1, parent_page_num), child_max_key), LAMBDA index :
        With([Buf(P1, parent_page_num) EXCEPT !.n = @ + 1], LAMBDA self1 :
            IF num_keys(self1) - 1 >= INTERNAL_NODE_MAX_CELLS
            THEN Fail(SetBuf(P1, parent_page_num, self1),
                      "Need to implement splitting internal node")
            ELSE With(get_page(SetBuf(P1, parent_page_num, self1), f, right_child(self1)),
                      LAMBDA P2 :
                     IF Failed(P2) THEN P2
                     ELSE InsertCell(P2, parent_page_num, child_page_num,
                                     self1, index, child_max_key))))))

\* A faulty split loop that copies no cell, which C18_SplitDistribution must
\* reject
SplitLoop_nothing(old_node, new_node, i, cell_num, key, value) == <<old_node, new_node>>

\* The loop of leaf_node_split_and_insert, from i down to 0, on the pair
\* <<old_node, new_node>>
RECURSIVE SplitLoop(_, _, _, _, _, _)
SplitLoop(old_node, new_node, i, cell_num, key, value) ==
    IF i < 0 THEN <<old_node, new_node>>
    ELSE With(IF i >= LEAF_NODE_LEFT_SPLIT_COUNT THEN new_node ELSE old_node, LAMBDA destination_node :
         With(i % LEAF_NODE_LEFT_SPLIT_COUNT, LAMBDA index_within_node :
         With(SetLeafCell(destination_node, index_within_node,
                  IF i = cell_num
                      THEN [key |-> key,
                            row |-> serialize_row(value,
                                       LeafValue(destination_node, index_within_node))]
                  ELSE IF i > cell_num THEN LeafCell(old_node, i - 1)
                  ELSE LeafCell(old_node, i)), LAMBDA written :
             IF i >= LEAF_NODE_LEFT_SPLIT_COUNT
             THEN SplitLoop(old_node, written, i - 1, cell_num, key, value)
             ELSE SplitLoop(written, new_node, i - 1, cell_num, key, value))))

\* leaf_node_split_and_insert from "Update cell count on both leaf nodes" on:
\* P2 holds the two leaves after the loop
SplitParent(P2, f, c, new_page_num, old_max) ==
    IF c.hdr.is_root THEN create_new_root(P2, f, new_page_num)
    ELSE With(get_page(P2, f, c.hdr.parent), LAMBDA P3 :
             IF Failed(P3) THEN P3
             ELSE IF Buf(P3, c.hdr.parent).type # NODE_INTERNAL
                 THEN Fail(P3, "Attempted to unwrap leaf node as internal node")
             ELSE internal_node_insert(
                      SetBuf(P3, c.hdr.parent,
                             update_key(Buf(P3, c.hdr.parent), old_max,
                                        get_node_max_key(Buf(P3, c.page_num)))),
                      f, c.hdr.parent, new_page_num))

\* A faulty leaf_node_split_and_insert that does not update the cell counts
\* of the two leaves, which C37_NoUnderflow must reject
leaf_node_split_and_insert_uncounted(c, f, key, value) ==
    With(get_unused_page_num(c.P), LAMBDA new_page_num :
    With(new_leaf_page(c.P, f, new_page_num), LAMBDA P1 :
        IF Failed(P1) THEN P1
        ELSE
        With(SplitLoop([Buf(P1, c.page_num) EXCEPT !.link = new_page_num],
                       [set_parent(Buf(P1, new_page_num), c.hdr.parent)
                           EXCEPT !.link = next_leaf(Buf(P1, c.page_num))],
                       LEAF_NODE_MAX_CELLS, c.cell_num, key, value), LAMBDA moved :
            SplitParent(SetBuf(SetBuf(P1, c.page_num, moved[1]), new_page_num, moved[2]),
                        f, c, new_page_num,
                        get_node_max_key(Buf(c.P, c.page_num))))))

leaf_node_split_and_insert(c, f, key, value) ==
    With(get_unused_page_num(c.P), LAMBDA new_page_num :
    With(new_leaf_page(c.P, f, new_page_num), LAMBDA P1 :
        IF Failed(P1) THEN P1
        ELSE
        With(SplitLoop([Buf(P1, c.page_num) EXCEPT !.link = new_page_num],
                       [set_parent(Buf(P1, new_page_num), c.hdr.parent)
                           EXCEPT !.link = next_leaf(Buf(P1, c.page_num))],
                       LEAF_NODE_MAX_CELLS, c.cell_num, key, value), LAMBDA moved :
            SplitParent(SetBuf(SetBuf(P1, c.page_num,
                                      [moved[1] EXCEPT !.n = LEAF_NODE_LEFT_SPLIT_COUNT]),
                               new_page_num,
                               [moved[2] EXCEPT !.n = LEAF_NODE_RIGHT_SPLIT_COUNT]),
                        f, c, new_page_num,
                        get_node_max_key(Buf(c.P, c.page_num))))))

\* A faulty "make room" that moves no cell, which C1_Completeness must reject
ShiftCells_nothing(p, i, lo) == p

\* "Make room for new cell": cell(i) <- cell(i - 1) for i from i down to lo + 1
RECURSIVE ShiftCells(_, _, _)
ShiftCells(p, i, lo) ==
    IF i <= lo THEN p ELSE ShiftCells(SetLeafCell(p, i, LeafCell(p, i - 1)), i - 1, lo)

\* leaf_node_insert on a leaf with room: node is the cursor's leaf
InsertCellInLeaf(node, cell_num, key, value) ==
    With([(IF cell_num < num_cells(node)
           THEN ShiftCells(node, num_cells(node), cell_num) ELSE node)
             EXCEPT !.n = num_cells(node) + 1], LAMBDA counted :
        SetLeafCell(counted, cell_num,
                    [key |-> key,
                     row |-> serialize_row(value, LeafValue(counted, cell_num))]))

\* A faulty leaf_node_insert that splits the leaf whether it is full or not,
\* which C12_Capacity must reject
leaf_node_insert_always_split(c, f, key, value) ==
    leaf_node_split_and_insert(c, f, key, value)

leaf_node_insert(c, f, key, value) ==
    IF num_cells(Buf(c.P, c.page_num)) >= LEAF_NODE_MAX_CELLS
    THEN leaf_node_split_and_insert(c, f, key, value)
    ELSE SetBuf(c.P, c.page_num,
                InsertCellInLeaf(Buf(c.P, c.page_num), c.cell_num, key, value))

\* execute_insert: the cursor's cell already holds the key
DuplicateKey(c, key) ==
    /\ ~Failed(c.P)
    /\ c.cell_num < num_cells(Buf(c.P, c.page_num))
    /\ LeafKey(Buf(c.P, c.page_num), c.cell_num) = key

\* execute_insert: the pager after the statement and the statement's result
execute_insert(P, f, row) ==
    With(Table_find(P, f, row.id), LAMBDA c :
        IF Failed(c.P) THEN [P |-> c.P, res |-> "fatal"]
        ELSE IF DuplicateKey(c, row.id) THEN [P |-> c.P, res |-> "DuplicateKey"]
        ELSE With(leaf_node_insert(c, f, row.id, row), LAMBDA P1 :
                 [P |-> P1, res |-> IF Failed(P1) THEN "fatal" ELSE "ok"]))

\* tests::table_full: the pager after the first n of the statements
\* `insert i user_i person_i@email.com`, i = 0, 1, 2, ..., run on a new table
RECURSIVE AscendingInserts(_)
AscendingInserts(n) ==
    IF n = 0 THEN Table_open(<<>>)
    ELSE With(AscendingInserts(n - 1), LAMBDA P :
             IF Failed(P) THEN P
             ELSE execute_insert(P, <<>>, RowFor(n - 1, FALSE)).P)

\* The rows that ascending inserts store before the root is full: each of
\* the first INTERNAL_NODE_MAX_CELLS leaves is left with LEFT_SPLIT_COUNT
\* cells by the split that follows it, the last leaf fills up
AscendingCapacity ==
    INTERNAL_NODE_MAX_CELLS * LEAF_NODE_LEFT_SPLIT_COUNT + LEAF_NODE_MAX_CELLS

\* The message of the panic in InternalNode::insert
InternalSplitPanic == "Need to implement splitting internal node"

(* ------------------------------ select -------------------------------- *)

\* An upper bound on the rows of any leaf chain without a cycle
ScanFuel == TABLE_MAX_PAGES * LEAF_NODE_MAX_CELLS

\* execute_select from the cursor position on: cursor.value(), print_row,
\* cursor.advance() until end_of_table
RECURSIVE Scan(_, _, _, _, _)
Scan(P, f, page_num, cell_num, fuel) ==
    With(get_page(P, f, page_num), LAMBDA P1 :
        IF Failed(P1) THEN [P |-> P1, rows |-> <<>>]
        ELSE IF fuel = 0 THEN [P |-> Fail(P1, "select does not end"), rows |-> <<>>]
        ELSE With(IF cell_num + 1 >= num_cells(Buf(P1, page_num))
                  THEN IF next_leaf(Buf(P1, page_num)) = 0
                       THEN [P |-> P1, rows |-> <<>>]
                       ELSE Scan(P1, f, next_leaf(Buf(P1, page_num)), 0, fuel - 1)
                  ELSE Scan(P1, f, page_num, cell_num + 1, fuel - 1), LAMBDA rest :
                 [P |-> rest.P,
                  rows |-> <<deserialize_row(LeafValue(Buf(P1, page_num), cell_num))>>
                           \o rest.rows]))

\* Table::start followed by the loop of execute_select
execute_select(P, f) ==
    With(Table_find(P, f, 0), LAMBDA c :
        IF Failed(c.P) THEN [P |-> c.P, rows |-> <<>>]
        ELSE IF num_cells(Buf(c.P, c.page_num)) = 0 THEN [P |-> c.P, rows |-> <<>>]
        ELSE Scan(c.P, f, c.page_num, c.cell_num, ScanFuel))

(* ------------------------------- .btree ------------------------------- *)

\* The lines print_tree writes: what the line shows, its indentation level,
\* and the number on it (a size or a key)
Line(kind, level, n) == [kind |-> kind, level |-> level, n |-> n]

\* The lines of the cells of a leaf: `- <key>` for i in 0..num_keys
CellLines(p, level) ==
    [i \in 1..num_cells(p) |-> Line("cell", level, LeafKey(p, i - 1))]

RECURSIVE print_tree(_, _, _, _, _)
RECURSIVE PrintChildren(_, _, _, _, _, _, _)

\* The loop of print_tree over the keys of internal node `node`, from i on,
\* and the right child after it
PrintChildren(P, f, node, i, n, level, fuel) ==
    IF i >= n THEN print_tree(P, f, right_child(node), level + 1, fuel - 1)
    ELSE With(print_tree(P, f, child(node, i), level + 1, fuel - 1), LAMBDA sub :
             IF Failed(sub.P) THEN sub
             ELSE With(PrintChildren(sub.P, f, node, i + 1, n, level, fuel),
                       LAMBDA rest :
                      [P |-> rest.P,
                       lines |-> sub.lines
                                   \o <<Line("key", level + 1, InternalKey(node, i))>>
                                   \o rest.lines]))

\* print_tree(pager, page_num, indentation_level)
print_tree(P, f, page_num, level, fuel) ==
    With(get_page(P, f, page_num), LAMBDA P1 :
        IF Failed(P1) THEN [P |-> P1, lines |-> <<>>]
        ELSE IF fuel = 0 THEN [P |-> Fail(P1, "stack overflow"), lines |-> <<>>]
        ELSE IF Buf(P1, page_num).type = NODE_LEAF
            THEN [P |-> P1,
                  lines |-> <<Line("leaf", level, num_cells(Buf(P1, page_num)))>>
                              \o CellLines(Buf(P1, page_num), level + 1)]
        ELSE With(PrintChildren(P1, f, Buf(P1, page_num), 0,
                                num_keys(Buf(P1, page_num)), level, fuel),
                  LAMBDA below :
                 [P |-> below.P,
                  lines |-> <<Line("internal", level, num_keys(Buf(P1, page_num)))>>
                              \o below.lines]))

(* --------------------------- state machine ---------------------------- *)

VARIABLES
    file,       \* the backing file: its pages, in order
    pager,      \* the Pager of the process
    open,       \* a process has the table open (between Table::open and close)
    out,        \* the rows printed by the last statement, if it was a select
    last,       \* the last statement: what it was and how it ended
    submitted,  \* history: the ids submitted so far
    acked,      \* history: the rows whose insert returned Ok
    repeated,   \* history: some id was submitted twice
    before,     \* history: what a select printed just before the last close
    opens,      \* history: how many times the file has been opened
    memory,     \* the stores of the InMemoryStorageFactory, by name
    views       \* the node views that are held, by slot

vars == <<file, pager, open, out, last, submitted, acked, repeated, before, opens, memory, views>>

\* The ids of a sequence of rows
Ids(rows) == {rows[i].id : i \in 1..Len(rows)}

\* Some cached page, or num_pages, differs between pagers P and Q
PagesChanged(P, Q) ==
    \/ Q.num_pages # P.num_pages
    \/ \E n \in DOMAIN P.pages : n \notin DOMAIN Q.pages \/ Q.pages[n] # P.pages[n]

\* No process: nothing is cached
NoPager == [pages |-> <<>>, num_pages |-> 0, file_length |-> 0, fatal |-> NoError]

\* The process after a fatal error: its memory, the cache included, is gone
Dead(P) == [NoPager EXCEPT !.fatal = P.fatal]
After(P) == IF Failed(P) THEN Dead(P) ELSE P

NoSnapshot == [valid |-> FALSE, rows |-> <<>>]

Init ==
    /\ file = <<>>
    /\ pager = Table_open(<<>>)
    /\ open = TRUE
    /\ out = <<>>
    /\ last = [op |-> "open", res |-> "ok", stored |-> FALSE, changed |-> FALSE]
    /\ submitted = {}
    /\ acked = {}
    /\ repeated = FALSE
    /\ before = NoSnapshot
    /\ opens = 1
    /\ memory = <<>>
    /\ views = <<>>

Running == open /\ ~Failed(pager)

\* A faulty insert statement that also writes the cached pages to the file,
\* which C14_CloseTimeWrites must reject
ExecuteInsert_writing(k) ==
    /\ Running
    /\ \E row \in {RowFor(k, k \in submitted)} :
       \E r \in {execute_insert(pager, file, row)} :
          /\ pager' = After(r.P)
          /\ file' = IF Failed(r.P) THEN file ELSE Pager_close(r.P, file)
          /\ last' = [op |-> "insert", res |-> r.res, stored |-> FALSE, changed |-> TRUE]
          /\ acked' = IF r.res = "ok" THEN acked \cup {row} ELSE acked
    /\ submitted' = submitted \cup {k}
    /\ repeated' = (repeated \/ k \in submitted)
    /\ out' = <<>>
    /\ before' = NoSnapshot
    /\ UNCHANGED <<views, memory, open, opens>>

\* One insert statement for id k, from prepare to its result
ExecuteInsert(k) ==
    /\ Running
    /\ \E row \in {RowFor(k, k \in submitted)} :
       \E r \in {execute_insert(pager, file, row)} :
       \E rows \in {execute_select(pager, file).rows} :
          /\ pager' = After(r.P)
          /\ last' = [op |-> "insert", res |-> r.res, stored |-> k \in Ids(rows),
                      changed |-> \/ PagesChanged(pager, r.P)
                                  \/ execute_select(r.P, file).rows # rows]
          /\ acked' = IF r.res = "ok" THEN acked \cup {row} ELSE acked
    /\ submitted' = submitted \cup {k}
    /\ repeated' = (repeated \/ k \in submitted)
    /\ out' = <<>>
    /\ before' = NoSnapshot
    /\ UNCHANGED <<views, memory, file, open, opens>>

\* One select statement
ExecuteSelect ==
    /\ Running
    /\ \E r \in {execute_select(pager, file)} :
          /\ pager' = After(r.P)
          /\ out' = r.rows
          /\ last' = [op |-> "select", res |-> IF Failed(r.P) THEN "fatal" ELSE "ok",
                      stored |-> FALSE, changed |-> FALSE]
    /\ UNCHANGED <<views, memory, file, open, submitted, acked, repeated, before, opens>>

\* The .exit meta command: Table::close, then the process ends
Close ==
    /\ Running
    /\ opens < MaxOpens
    /\ file' = Pager_close(pager, file)
    /\ pager' = NoPager
    /\ open' = FALSE
    /\ out' = <<>>
    /\ last' = [op |-> "close", res |-> "ok", stored |-> FALSE, changed |-> FALSE]
    /\ before' = [valid |-> TRUE, rows |-> execute_select(pager, file).rows]
    /\ UNCHANGED <<views, memory, submitted, acked, repeated, opens>>

\* The process is killed between two statements: Table::close does not run.
\* What the process held in memory is lost, and with it every row inserted
\* since the file was last written (last.stored: there were such rows).
Kill ==
    /\ Running
    /\ opens < MaxOpens
    /\ pager' = NoPager
    /\ open' = FALSE
    /\ out' = <<>>
    /\ last' = [op |-> "kill", res |-> "ok", stored |-> acked # {}, changed |-> FALSE]
    /\ submitted' = {}
    /\ acked' = {}
    /\ repeated' = FALSE
    /\ UNCHANGED <<views, memory, file, before, opens>>

\* A new process opens the same file: Table::open
Open ==
    /\ ~open
    /\ ~Failed(pager)
    /\ opens < MaxOpens
    /\ opens' = opens + 1
    /\ pager' = Table_open(file)
    /\ open' = TRUE
    /\ out' = <<>>
    /\ last' = [op |-> "open", res |-> "ok", stored |-> FALSE, changed |-> FALSE]
    /\ UNCHANGED <<views, memory, file, submitted, acked, repeated, before>>

\* One process, from Table::open on
Next ==
    \/ \E k \in Keys : ExecuteInsert(k)
    \/ ExecuteSelect

Spec == Init /\ [][Next]_vars

\* Processes that open the file one after the other
NextPersist ==
    \/ \E k \in PersistKeys : ExecuteInsert(k)
    \/ ExecuteSelect
    \/ Close
    \/ Kill
    \/ Open

SpecPersist == Init /\ [][NextPersist]_vars

\* The page numbers handed to Pager::page
PageProbes ==
    (0..MaxProbe) \cup {TABLE_MAX_PAGES - 1, TABLE_MAX_PAGES, TABLE_MAX_PAGES + 1}

\* One call of Pager::page(n) (last.stored: the page was in the cache)
GetPage(n) ==
    /\ Running
    /\ \E P \in {get_page(pager, file, n)} :
          /\ pager' = After(P)
          /\ last' = [op |-> "page", res |-> IF Failed(P) THEN "fatal" ELSE "ok",
                      stored |-> n \in DOMAIN pager.pages,
                      changed |-> PagesChanged(pager, P)]
    /\ out' = <<>>
    /\ UNCHANGED <<views, memory, file, open, submitted, acked, repeated, before, opens>>

\* The pager alone: calls of Pager::page on a new table
NextPager == \E n \in PageProbes : GetPage(n)

SpecPager == Init /\ [][NextPager]_vars

\* The insert statements of the runs that vary the strings: ids from -1 up,
\* usernames and emails of no byte, one byte, the largest size and one more
RowIds == (0 - 1)..MaxRowKey
UsernameLens == {0, 1, USERNAME_SIZE, USERNAME_SIZE + 1}
EmailLens == {0, 1, EMAIL_SIZE, EMAIL_SIZE + 1}
UsernameOf(id, len) == Str(len, id)
EmailOf(id, len) == Str(len, id + 100)

\* One statement `insert id username email`, from prepare to its result
InsertRow(id, ulen, elen) ==
    /\ Running
    /\ \E st \in {prepare_insert(id, UsernameOf(id, ulen), EmailOf(id, elen))} :
          IF st.res = ParseIntPanic
          THEN /\ pager' = Dead(Fail(pager, ParseIntPanic))
               /\ last' = [op |-> "insert", res |-> "fatal",
                           stored |-> FALSE, changed |-> FALSE]
               /\ UNCHANGED <<acked, submitted, repeated>>
          ELSE IF st.res # "ok"
          THEN /\ last' = [op |-> "prepare", res |-> st.res,
                           stored |-> FALSE, changed |-> FALSE]
               /\ UNCHANGED <<pager, acked, submitted, repeated>>
          ELSE \E r \in {execute_insert(pager, file, st.row)} :
                  /\ pager' = After(r.P)
                  /\ last' = [op |-> "insert", res |-> r.res,
                              stored |-> id \in Ids(execute_select(pager, file).rows),
                              changed |-> PagesChanged(pager, r.P)]
                  /\ acked' = IF r.res = "ok" THEN acked \cup {st.row} ELSE acked
                  /\ submitted' = submitted \cup {id}
                  /\ repeated' = (repeated \/ id \in submitted)
    /\ out' = <<>>
    /\ before' = NoSnapshot
    /\ UNCHANGED <<views, memory, file, open, opens>>

NextRows ==
    \/ \E id \in RowIds : \E ulen \in UsernameLens : \E elen \in EmailLens :
          InsertRow(id, ulen, elen)
    \/ ExecuteSelect

SpecRows == Init /\ [][NextRows]_vars

\* The insert statements of the runs that vary the id: strings of one byte
IdProbes == ((0 - 1)..MaxSmallId) \cup {I32_MAX - 1, I32_MAX, I32_MAX + 1, U32_MAX}
NextIds ==
    \/ \E id \in IdProbes : InsertRow(id, 1, 1)
    \/ ExecuteSelect

SpecIds == Init /\ [][NextIds]_vars

\* The command lines of the runs that read lines: lines shorter than six
\* characters, lines of other keywords, select, and insert statements
InsertLine(k) == InsertWord \o <<" ", Digits[k + 1], " ", "a", " ", "b">>
OtherLines ==
    {<<>>, <<"f", "o", "o">>, <<"i", "n", "s">>, <<"s", "e", "l", "e", "c">>,
     <<"u", "p", "d", "a", "t", "e">>, SelectLine \o <<"x">>,
     <<"d", "e", "l", "e", "t", "e", " ", "1">>, InsertWord}
Lines == OtherLines \cup {SelectLine} \cup {InsertLine(k) : k \in 0..MaxLineId}

\* One turn of the loop of main on a line that is no meta command: prepare
\* the statement, report a prepare error and go on, or execute the statement
ReadLine(line) ==
    /\ Running
    /\ \E st \in {Statement_try_from(line)} :
          IF st.res \in {SlicePanic, ParseIntPanic}
          THEN /\ pager' = Dead(Fail(pager, st.res))
               /\ last' = [op |-> "prepare", res |-> "fatal",
                           stored |-> FALSE, changed |-> FALSE]
               /\ out' = <<>>
               /\ UNCHANGED <<acked, submitted, repeated>>
          ELSE IF st.res = "select"
          THEN \E r \in {execute_select(pager, file)} :
                  /\ pager' = After(r.P)
                  /\ out' = r.rows
                  /\ last' = [op |-> "select",
                              res |-> IF Failed(r.P) THEN "fatal" ELSE "ok",
                              stored |-> FALSE, changed |-> FALSE]
                  /\ UNCHANGED <<acked, submitted, repeated>>
          ELSE IF st.res = "ok"
          THEN \E r \in {execute_insert(pager, file, st.row)} :
                  /\ pager' = After(r.P)
                  /\ out' = <<>>
                  /\ last' = [op |-> "insert", res |-> r.res,
                              stored |-> FALSE, changed |-> PagesChanged(pager, r.P)]
                  /\ acked' = IF r.res = "ok" THEN acked \cup {st.row} ELSE acked
                  /\ submitted' = submitted \cup {st.row.id}
                  /\ repeated' = (repeated \/ st.row.id \in submitted)
          ELSE /\ last' = [op |-> "prepare", res |-> st.res,
                           stored |-> FALSE, changed |-> FALSE]
               /\ out' = <<>>
               /\ UNCHANGED <<pager, acked, submitted, repeated>>
    /\ UNCHANGED <<views, memory, file, open, before, opens>>

NextLines == \E line \in Lines : ReadLine(line)

SpecLines == Init /\ [][NextLines]_vars

\* The .btree meta command: print_tree from the root, on a process that
\* goes on afterwards
Btree ==
    /\ Running
    /\ \E r \in {print_tree(pager, file, root_page_num, 0, MaxDescent + 1)} :
          /\ pager' = After(r.P)
          /\ out' = r.lines
          /\ last' = [op |-> "btree", res |-> IF Failed(r.P) THEN "fatal" ELSE "ok",
                      stored |-> FALSE, changed |-> PagesChanged(pager, r.P)]
    /\ UNCHANGED <<views, memory, file, open, submitted, acked, repeated, before, opens>>

NextTree ==
    \/ \E k \in Keys : ExecuteInsert(k)
    \/ Btree

SpecTree == Init /\ [][NextTree]_vars

\* The lengths in bytes of the backing stores a process may be started on:
\* whole pages, and whole pages followed by part of a page
StoreLengths ==
    {k * PAGE_SIZE + r : k \in 0..MaxStorePages, r \in {0, 1, PAGE_SIZE - 1}}

\* The first n pages of file f, zero pages where f has none
Resize(f, n) == [i \in 1..n |-> IF i <= Len(f) THEN f[i] ELSE ZeroPage]

\* A new process is started on the file after it was cut or extended to
\* file_length bytes: Pager::open, and the rest of Table::open after it
OpenStore(file_length) ==
    /\ ~open
    /\ ~Failed(pager)
    /\ opens < MaxOpens
    /\ opens' = opens + 1
    /\ file' = Resize(file, file_length \div PAGE_SIZE)
    /\ pager' = IF Failed(Pager_open_length(file_length))
                THEN Pager_open_length(file_length)
                ELSE Table_open(file')
    /\ open' = TRUE
    /\ out' = <<>>
    /\ last' = [op |-> "open",
                res |-> IF Failed(Pager_open_length(file_length)) THEN "fatal" ELSE "ok",
                stored |-> FALSE, changed |-> FALSE]
    /\ UNCHANGED <<views, memory, submitted, acked, repeated, before>>

NextStore ==
    \/ \E n \in 0..MaxProbe : GetPage(n)
    \/ Close
    \/ \E file_length \in StoreLengths : OpenStore(file_length)

SpecStore == Init /\ [][NextStore]_vars

\* One process: insert statements, and .exit as its last command
NextExit ==
    \/ \E k \in Keys : ExecuteInsert(k)
    \/ Close

SpecExit == Init /\ [][NextExit]_vars

(* ------------------------ the tree of a state ------------------------- *)

\* Page n as the running process finds it: the cached buffer, else the file
PageAt(n) == IF n \in DOMAIN pager.pages THEN pager.pages[n] ELSE ReadPage(file, n)

PageNums == 0..(pager.num_pages - 1)
LeafPages == {n \in PageNums : PageAt(n).type = NODE_LEAF}
InternalPages == {n \in PageNums : PageAt(n).type = NODE_INTERNAL}

\* The keys in cells [0, num_cells) of leaf n
LeafKeys(n) == {LeafKey(PageAt(n), i) : i \in 0..(num_cells(PageAt(n)) - 1)}
AllKeys == UNION {LeafKeys(n) : n \in LeafPages}

\* The child pointers of internal node n: cells [0, num_keys) and right_child
Children(n) == {child(PageAt(n), i) : i \in 0..num_keys(PageAt(n))}

\* The keys stored in the leaves below page n
RECURSIVE SubtreeKeys(_, _)
SubtreeKeys(n, fuel) ==
    IF n \notin PageNums THEN {}
    ELSE IF PageAt(n).type = NODE_LEAF THEN LeafKeys(n)
    ELSE IF fuel = 0 THEN {}
    ELSE UNION {SubtreeKeys(c, fuel - 1) : c \in Children(n)}

Max(S) == CHOOSE x \in S : \A y \in S : y <= x

\* The leaf reached from page n through child 0 at every level
RECURSIVE Leftmost(_, _)
Leftmost(n, fuel) ==
    IF PageAt(n).type = NODE_LEAF \/ fuel = 0 \/ child(PageAt(n), 0) \notin PageNums THEN n
    ELSE Leftmost(child(PageAt(n), 0), fuel - 1)

\* The pages met by following next_leaf from page n, for at most fuel pages
RECURSIVE ChainFrom(_, _)
ChainFrom(n, fuel) ==
    IF fuel = 0 THEN <<>>
    ELSE <<n>> \o (IF next_leaf(PageAt(n)) = 0 \/ next_leaf(PageAt(n)) \notin PageNums
                   THEN <<>> ELSE ChainFrom(next_leaf(PageAt(n)), fuel - 1))

LeafChain == ChainFrom(Leftmost(root_page_num, MaxDescent), pager.num_pages + 1)

\* The pages reached from page n through child pointers
RECURSIVE SubtreePages(_, _)
SubtreePages(n, fuel) ==
    IF n \notin PageNums THEN {}
    ELSE IF PageAt(n).type = NODE_LEAF \/ fuel = 0 THEN {n}
    ELSE {n} \cup UNION {SubtreePages(c, fuel - 1) : c \in Children(n)}

\* The rows the environment submitted first for the ids of S
FirstRows(S) == {RowFor(k, FALSE) : k \in S}

(* ------------------------------ claims -------------------------------- *)

\* C1 (completeness): when every id was submitted at most once and the process
\* is still running, a select prints exactly the submitted ids, each once,
\* each with the row inserted for it.
C1_Completeness ==
    (Running /\ ~repeated /\ last.op = "select") =>
        /\ Len(out) = Cardinality(submitted)
        /\ Ids(out) = submitted
        /\ {out[i] : i \in 1..Len(out)} = acked
        /\ acked = FirstRows(submitted)

\* C1 witness: a select that prints five rows or more from a tree of three
\* leaves or more.
C1_Witness ==
    /\ Running /\ ~repeated /\ last.op = "select"
    /\ PageAt(root_page_num).type = NODE_INTERNAL
    /\ num_keys(PageAt(root_page_num)) >= 2
    /\ Len(out) >= 5

\* C2 (ordering): when every id was submitted at most once, a select prints
\* the ids in strictly ascending order.
C2_Ordering ==
    (Running /\ ~repeated /\ last.op = "select") =>
        \A i \in 1..(Len(out) - 1) : out[i].id < out[i + 1].id

\* C3 (persistence): the first select of a process that reopened the file
\* prints the rows, in the order, that a select printed just before the close.
C3_Persistence ==
    (Running /\ last.op = "select" /\ before.valid) => out = before.rows

\* C3 witness: such a select over a tree with an internal root.
C3_Witness ==
    /\ Running /\ last.op = "select" /\ before.valid /\ opens > 1
    /\ PageAt(root_page_num).type = NODE_INTERNAL
    /\ Len(out) >= 4

\* C4 (duplicate key): an insert of an id that a select would have printed
\* returns DuplicateKey and changes no page, not num_pages, and not what a
\* select prints.
C4_DuplicateKey ==
    (last.op = "insert" /\ last.stored) => (last.res = "DuplicateKey" /\ ~last.changed)

\* C5 (separator keys): in every internal node, key i is the largest key
\* stored below child i, and every key below right_child is greater than the
\* last key.
C5_SeparatorKeys ==
    Running =>
        \A n \in InternalPages :
            /\ \A i \in 0..(num_keys(PageAt(n)) - 1) :
                   /\ SubtreeKeys(InternalCell(PageAt(n), i), MaxDescent) # {}
                   /\ InternalKey(PageAt(n), i)
                          = Max(SubtreeKeys(InternalCell(PageAt(n), i), MaxDescent))
            /\ \A k \in SubtreeKeys(right_child(PageAt(n)), MaxDescent) :
                   k > InternalKey(PageAt(n), num_keys(PageAt(n)) - 1)

\* C6 (leaf chain): following next_leaf from the leftmost leaf meets every
\* leaf once, in ascending key order, and ends at a leaf whose next_leaf is 0;
\* a next_leaf other than 0 names a leaf that is not the root page.
C6_LeafChain ==
    Running =>
        /\ {LeafChain[i] : i \in 1..Len(LeafChain)} = LeafPages
        /\ Len(LeafChain) = Cardinality(LeafPages)
        /\ \A i \in 1..(Len(LeafChain) - 1) :
               \A a \in LeafKeys(LeafChain[i]), b \in LeafKeys(LeafChain[i + 1]) : a < b
        /\ next_leaf(PageAt(LeafChain[Len(LeafChain)])) = 0
        /\ \A n \in LeafPages :
               next_leaf(PageAt(n)) # 0
                   => next_leaf(PageAt(n)) \in LeafPages \ {root_page_num}

\* C7 (key order and uniqueness): the keys of every leaf and of every
\* internal node are strictly ascending, and no key is in two leaf cells.
C7_KeyOrder ==
    Running =>
        /\ \A n \in LeafPages : \A i, j \in 0..(num_cells(PageAt(n)) - 1) :
               i < j => LeafKey(PageAt(n), i) < LeafKey(PageAt(n), j)
        /\ \A n \in InternalPages : \A i, j \in 0..(num_keys(PageAt(n)) - 1) :
               i < j => InternalKey(PageAt(n), i) < InternalKey(PageAt(n), j)
        /\ \A n, m \in LeafPages : n # m => LeafKeys(n) \cap LeafKeys(m) = {}

\* The keys that a scan along the chain meets before cell cell_num of leaf
\* page_num, and the keys it meets from that cell on
KeysBefore(page_num, cell_num) ==
    {LeafKey(PageAt(page_num), i) : i \in 0..(cell_num - 1)}
    \cup UNION {LeafKeys(LeafChain[i]) :
                i \in {j \in 1..Len(LeafChain) :
                       \E h \in (j + 1)..Len(LeafChain) : LeafChain[h] = page_num}}
KeysFrom(page_num, cell_num) == AllKeys \ KeysBefore(page_num, cell_num)

\* What C8 says of the cursor c that Table::find returns for key
FindIsRight(c, key) ==
    /\ ~Failed(c.P)
    /\ c.page_num \in LeafPages
    /\ c.cell_num \in 0..num_cells(PageAt(c.page_num))
    /\ \A i \in 0..(c.cell_num - 1) : LeafKey(PageAt(c.page_num), i) < key
    /\ c.cell_num < num_cells(PageAt(c.page_num))
           => LeafKey(PageAt(c.page_num), c.cell_num) >= key
    /\ key \in AllKeys
           => /\ c.cell_num < num_cells(PageAt(c.page_num))
              /\ LeafKey(PageAt(c.page_num), c.cell_num) = key
    /\ key \notin AllKeys
           => /\ \A k \in KeysBefore(c.page_num, c.cell_num) : k < key
              /\ \A k \in KeysFrom(c.page_num, c.cell_num) : k > key

\* C8 (search): for every key, Table::find returns the place of the key in
\* its leaf if it is stored, and else a place where inserting it keeps the
\* tree sorted.
C8_Search ==
    Running => \A key \in Keys : FindIsRight(Table_find(pager, file, key), key)

\* C9 (parent pointers): the parent field of every node but the root names
\* an internal node that has that node among its children.
C9_ParentPointers ==
    Running =>
        \A n \in PageNums :
            ~PageAt(n).is_root
                => /\ PageAt(n).parent \in InternalPages
                   /\ n \in Children(PageAt(n).parent)

\* C9 witness: a completed insert that left four leaves under the root.
C9_Witness ==
    /\ Running /\ last.op = "insert" /\ last.res = "ok"
    /\ Cardinality(LeafPages) >= 4
    /\ \A n \in LeafPages : PageAt(n).parent = root_page_num

\* C10 (single root): page 0 has is_root set and no other page has.
C10_SingleRoot ==
    Running =>
        /\ root_page_num \in PageNums
        /\ \A n \in PageNums : PageAt(n).is_root <=> n = root_page_num

\* C10 witness: the state after the insert that split the root leaf.
C10_Witness ==
    /\ Running /\ last.op = "insert" /\ last.res = "ok"
    /\ PageAt(root_page_num).type = NODE_INTERNAL
    /\ num_keys(PageAt(root_page_num)) = 1
    /\ Cardinality(submitted) = LEAF_NODE_MAX_CELLS + 1

\* C11 (node types): every page in use is an internal node or a leaf; over a
\* step between two running states no page other than page 0 changes its
\* type, and page 0 changes it exactly in the step that splits the root leaf
\* (num_pages leaves 1), from leaf to internal.
C11_NodeTypes ==
    [][(Running /\ Running') =>
          \A n \in PageNums :
              /\ PageAt(n).type \in {NODE_INTERNAL, NODE_LEAF}
              /\ (PageAt(n))'.type \in {NODE_INTERNAL, NODE_LEAF}
              /\ n # root_page_num => (PageAt(n))'.type = PageAt(n).type
              /\ n = root_page_num =>
                     (PageAt(n))'.type =
                         IF pager.num_pages = 1 /\ pager'.num_pages > 1
                         THEN NODE_INTERNAL ELSE PageAt(n).type]_vars

\* C11 as stated: no page ever changes its type.
C11_StableTypes ==
    [][(Running /\ Running') =>
          \A n \in PageNums : (PageAt(n))'.type = PageAt(n).type]_vars

\* C11 witness: page 0, first a leaf, is an internal node over three leaves.
C11_Witness ==
    /\ Running /\ last.op = "insert" /\ last.res = "ok"
    /\ PageAt(root_page_num).type = NODE_INTERNAL
    /\ Cardinality(LeafPages) = 3
    /\ \A n \in PageNums \ {root_page_num} : PageAt(n).type = NODE_LEAF

Overflows(key) ==
    With(Table_find(pager, file, key), LAMBDA c :
        /\ ~Failed(c.P)
        /\ ~DuplicateKey(c, key)
        /\ num_cells(Buf(c.P, c.page_num)) >= LEAF_NODE_MAX_CELLS
        /\ ~c.hdr.is_root
        /\ c.hdr.parent \in InternalPages
        /\ num_keys(PageAt(c.hdr.parent)) >= INTERNAL_NODE_MAX_CELLS)

C14_CloseTimeWrites ==
    [][file' # file =>
          /\ Running
          /\ last'.op = "close"
          /\ file' = Pager_close(pager, file)]_vars

\* C14 witness: a process killed after inserts that returned Ok, the file
\* still empty as it was at open.
C14_Witness ==
    /\ ~open /\ last.op = "kill" /\ last.stored
    /\ file = <<>>

\* C15 (bounded cache): every call page(n) either ends in the fatal error
\* "Tried to fetch page number out of bounds" or leaves page n in slot n, with
\* n < TABLE_MAX_PAGES; the cache holds pages in slots below TABLE_MAX_PAGES
\* only.
C15_BoundedCache ==
    [][\A n \in PageProbes :
          GetPage(n) =>
              /\ \/ pager'.fatal = "Tried to fetch page number out of bounds"
                 \/ /\ ~Failed(pager')
                    /\ n < TABLE_MAX_PAGES
                    /\ n \in DOMAIN pager'.pages
              /\ DOMAIN pager'.pages \subseteq 0..(TABLE_MAX_PAGES - 1)]_vars

\* C16 (append-only dense allocation): get_unused_page_num returns num_pages,
\* which is the number of no page in use; the pages in use are exactly
\* 0..num_pages-1, each reached from the root, each under the root a leaf
\* that holds cells; the children of the root are distinct pages other than
\* page 0; and num_pages never decreases, nor does a page leave the cache.
C16_DenseAllocation ==
    /\ [](Running =>
            /\ get_unused_page_num(pager) = pager.num_pages
            /\ get_unused_page_num(pager) \notin DOMAIN pager.pages
            /\ DOMAIN pager.pages = PageNums
            /\ SubtreePages(root_page_num, MaxDescent) = PageNums
            /\ \A n \in PageNums \ {root_page_num} :
                   /\ PageAt(n).type = NODE_LEAF
                   /\ num_cells(PageAt(n)) >= 1
            /\ PageAt(root_page_num).type = NODE_INTERNAL =>
                   /\ root_page_num \notin Children(root_page_num)
                   /\ Cardinality(Children(root_page_num))
                          = num_keys(PageAt(root_page_num)) + 1)
    /\ [][(Running /\ Running') =>
              /\ pager'.num_pages >= pager.num_pages
              /\ DOMAIN pager.pages \subseteq DOMAIN pager'.pages]_vars

\* C16 witness: five pages in use after the inserts that split three leaves.
C16_Witness ==
    /\ Running /\ last.op = "insert" /\ last.res = "ok"
    /\ pager.num_pages = INTERNAL_NODE_MAX_CELLS + 2
    /\ SubtreePages(root_page_num, MaxDescent) = 0..(INTERNAL_NODE_MAX_CELLS + 1)

\* C17 (occupancy bounds): after every completed insert every leaf holds 0 to
\* LEAF_NODE_MAX_CELLS cells, every internal node 1 to INTERNAL_NODE_MAX_CELLS
\* keys, and every leaf other than the root at least
\* LEAF_NODE_RIGHT_SPLIT_COUNT = (LEAF_NODE_MAX_CELLS + 1) / 2 cells, so that
\* no leaf of the chain is empty once the root has split.
C17_Occupancy ==
    Running =>
        /\ LEAF_NODE_RIGHT_SPLIT_COUNT = (LEAF_NODE_MAX_CELLS + 1) \div 2
        /\ \A n \in LeafPages : num_cells(PageAt(n)) \in 0..LEAF_NODE_MAX_CELLS
        /\ \A n \in InternalPages :
               num_keys(PageAt(n)) \in 1..INTERNAL_NODE_MAX_CELLS
        /\ \A n \in LeafPages \ {root_page_num} :
               num_cells(PageAt(n)) >= LEAF_NODE_RIGHT_SPLIT_COUNT
        /\ PageAt(root_page_num).type = NODE_INTERNAL =>
               \A i \in 1..Len(LeafChain) : num_cells(PageAt(LeafChain[i])) >= 1

\* C17 witness: a root with INTERNAL_NODE_MAX_CELLS keys over leaves of which
\* one is full and one holds LEAF_NODE_RIGHT_SPLIT_COUNT cells.
C17_Witness ==
    /\ Running /\ last.op = "insert" /\ last.res = "ok"
    /\ PageAt(root_page_num).type = NODE_INTERNAL
    /\ num_keys(PageAt(root_page_num)) = INTERNAL_NODE_MAX_CELLS
    /\ \E n \in LeafPages : num_cells(PageAt(n)) = LEAF_NODE_MAX_CELLS
    /\ \E n \in LeafPages : num_cells(PageAt(n)) = LEAF_NODE_RIGHT_SPLIT_COUNT

\* The two leaves leaf_node_split_and_insert makes of the full leaf p and the
\* new key k: the loop over the LEAF_NODE_MAX_CELLS + 1 cells and the update
\* of the two cell counts.
SplitOf(p, k) ==
    With(SplitLoop(p, initialize_leaf_node(ZeroPage), LEAF_NODE_MAX_CELLS,
                   leaf_node_find(p, k), k, RowFor(k, FALSE)), LAMBDA moved :
        <<[moved[1] EXCEPT !.n = LEAF_NODE_LEFT_SPLIT_COUNT],
          [moved[2] EXCEPT !.n = LEAF_NODE_RIGHT_SPLIT_COUNT]>>)

\* The cells 0..num_cells-1 of leaf p as <<key, row>> pairs
CellsOf(p) == [i \in 1..num_cells(p) |->
                  <<LeafKey(p, i - 1), deserialize_row(LeafValue(p, i - 1))>>]
Ascending(cells) == \A i \in 1..(Len(cells) - 1) : cells[i][1] < cells[i + 1][1]

\* The keys that may be inserted into leaf p, and the full leaves of the
\* state whose cells are in ascending order
NewKeysFor(p) == (0..(MaxKey + 1)) \ {LeafKey(p, i) : i \in 0..(num_cells(p) - 1)}
FullLeaves ==
    {n \in LeafPages : /\ num_cells(PageAt(n)) = LEAF_NODE_MAX_CELLS
                       /\ Ascending(CellsOf(PageAt(n)))}

\* C18 (leaf split distribution): splitting a full leaf around a new key, at
\* whatever position the key belongs, leaves the old leaf with the
\* LEAF_NODE_LEFT_SPLIT_COUNT smallest and the new leaf with the
\* LEAF_NODE_RIGHT_SPLIT_COUNT largest of the LEAF_NODE_MAX_CELLS + 1 keys,
\* in ascending order, every key paired with its own row; the two counts add
\* up to LEAF_NODE_MAX_CELLS + 1 and the left one is not the smaller (7 and 7
\* for the 13 cells of a page); inserting LEAF_NODE_MAX_CELLS + 1 ids in
\* order gives a left leaf of the first LEAF_NODE_LEFT_SPLIT_COUNT and a
\* right leaf of the rest.
C18_SplitDistribution ==
    /\ LEAF_NODE_LEFT_SPLIT_COUNT + LEAF_NODE_RIGHT_SPLIT_COUNT = LEAF_NODE_MAX_CELLS + 1
    /\ LEAF_NODE_LEFT_SPLIT_COUNT >= LEAF_NODE_RIGHT_SPLIT_COUNT
    /\ (13 + 1) \div 2 = 7 /\ (13 + 1) - (13 + 1) \div 2 = 7
    /\ Running =>
         \A n \in FullLeaves : \A k \in NewKeysFor(PageAt(n)) :
            LET halves == SplitOf(PageAt(n), k)
                all == CellsOf(halves[1]) \o CellsOf(halves[2])
                pairs == {CellsOf(PageAt(n))[i] : i \in 1..LEAF_NODE_MAX_CELLS}
                             \cup {<<k, RowFor(k, FALSE)>>}
            IN  /\ Len(CellsOf(halves[1])) = LEAF_NODE_LEFT_SPLIT_COUNT
                /\ Len(CellsOf(halves[2])) = LEAF_NODE_RIGHT_SPLIT_COUNT
                /\ Ascending(all)
                /\ {all[i] : i \in 1..Len(all)} = pairs
    /\ (Running /\ pager = AscendingInserts(LEAF_NODE_MAX_CELLS + 1)) =>
         /\ PageAt(root_page_num).type = NODE_INTERNAL
         /\ LeafKeys(child(PageAt(root_page_num), 0))
                = 0..(LEAF_NODE_LEFT_SPLIT_COUNT - 1)
         /\ LeafKeys(right_child(PageAt(root_page_num)))
                = LEAF_NODE_LEFT_SPLIT_COUNT..LEAF_NODE_MAX_CELLS

\* C18 witness: the root leaf has split, and a full leaf of the tree has a new
\* key for every insertion position 0..LEAF_NODE_MAX_CELLS.
C18_Witness ==
    /\ Running /\ last.op = "insert" /\ last.res = "ok"
    /\ PageAt(root_page_num).type = NODE_INTERNAL
    /\ num_keys(PageAt(root_page_num)) = 1
    /\ \E n \in FullLeaves :
          {leaf_node_find(PageAt(n), k) : k \in NewKeysFor(PageAt(n))}
              = 0..LEAF_NODE_MAX_CELLS

\* The rows within the length limits, and the ROW_SIZE areas serialize_row
\* may find: a zeroed one, one filled to the last byte, and every value area
\* of the leaves of the state
RowsWithinLimits ==
    {[id |-> id, username |-> UsernameOf(id, ulen), email |-> EmailOf(id, elen)] :
        id \in 0..MaxRowKey,
        ulen \in {l \in UsernameLens : l <= USERNAME_SIZE},
        elen \in {l \in EmailLens : l <= EMAIL_SIZE}}
FilledSlot ==
    [id |-> Junk, ulen |-> USERNAME_SIZE, ubuf |-> [i \in 1..USERNAME_SIZE |-> 255],
     elen |-> EMAIL_SIZE, ebuf |-> [i \in 1..EMAIL_SIZE |-> 255]]
Destinations ==
    {ZeroSlot, FilledSlot}
        \cup {LeafValue(PageAt(n), i) : n \in LeafPages, i \in CellIdx}

\* C19 (row round trip): for every row with a username of at most
\* USERNAME_SIZE bytes and an email of at most EMAIL_SIZE bytes, the empty
\* strings and the longest ones included, deserialize_row of what
\* serialize_row wrote is the row, whatever the ROW_SIZE bytes held before,
\* and no range that serialize_row writes ends after ROW_SIZE (nor does the
\* username reach the length field of the email).
C19_RoundTrip ==
    Running =>
        \A row \in RowsWithinLimits : \A destination \in Destinations :
            /\ deserialize_row(serialize_row(row, destination)) = row
            /\ \A end \in SerializeEnds(row) : end <= ROW_SIZE
            /\ USERNAME_OFFSET + Len(row.username) <= EMAIL_SIZE_OFFSET
            /\ Len(serialize_row(row, destination).ubuf) <= USERNAME_SIZE
            /\ Len(serialize_row(row, destination).ebuf) <= EMAIL_SIZE

\* C19 witness: a leaf holds a row of the longest strings in one value area
\* and a row of empty strings in another, both areas being destinations of
\* the round trip.
C19_Witness ==
    /\ Running /\ last.op = "insert" /\ last.res = "ok"
    /\ \E d \in Destinations : d.ulen = USERNAME_SIZE /\ d.elen = EMAIL_SIZE
    /\ \E d \in Destinations : d # ZeroSlot /\ d.ulen = 0 /\ d.elen = 0

C21_IdRange ==
    /\ [](Running =>
            \A id \in IdProbes :
                LET st == prepare_insert(id, UsernameOf(id, 1), EmailOf(id, 1))
                IN  /\ id < 0 => st.res = "NegativeId"
                    /\ id \in 0..U32_MAX => (st.res = "ok" /\ st.row.id = id))
    /\ [][/\ (last'.op = "prepare" /\ last'.res = "NegativeId") =>
                (pager' = pager /\ file' = file /\ acked' = acked)
          /\ (last'.op = "insert" /\ last'.res = "ok") =>
                \E row \in acked' \ acked : row.id \in AllKeys']_vars

\* C22 (unrecognized statements are recoverable): every line that does not
\* start with '.', does not begin with 'insert' and is not 'select', the
\* empty line and the lines shorter than six characters included, is
\* reported as UnrecognizedStatement, leaves the table as it was, and the
\* process goes on to the next line.
C22_Unrecognized ==
    /\ [](Running =>
            \A line \in OtherLines \ {InsertWord} :
                Statement_try_from(line).res = "UnrecognizedStatement")
    /\ [][\A line \in OtherLines \ {InsertWord} :
              ReadLine(line) =>
                  /\ last'.op = "prepare" /\ last'.res = "UnrecognizedStatement"
                  /\ pager' = pager /\ file' = file
                  /\ Running']_vars

\* The lines of the subtree printed just before line i of the dump: from the
\* last line before i at the level of line i
SubtreeBefore(lines, i) ==
    LET start == CHOOSE j \in 1..(i - 1) :
                    /\ lines[j].level = lines[i].level
                    /\ \A m \in (j + 1)..(i - 1) : lines[m].level > lines[i].level
    IN  SubSeq(lines, start, i - 1)
CellKeysOf(lines) == {lines[j].n : j \in {m \in DOMAIN lines : lines[m].kind = "cell"}}
KeysInOrder(lines) ==
    \A i, j \in DOMAIN lines :
        (i < j /\ lines[i].kind \in {"cell", "key"} /\ lines[j].kind \in {"cell", "key"})
            => lines[i].n <= lines[j].n

\* C23 (tree dump): .btree prints a leaf as its size followed by its keys in
\* cell order, an internal node as its number of keys followed, for each
\* separator, by the child's subtree and the separator, and last the right
\* child's subtree; the keys of the cells appear in ascending order and
\* every `- key k` line shows the largest key printed in the subtree just
\* before it.
C23_TreeDump ==
    (Running /\ last.op = "btree" /\ last.res = "ok") =>
        /\ out # <<>> /\ out[1].level = 0
        /\ out[1].kind = (IF PageAt(root_page_num).type = NODE_LEAF
                          THEN "leaf" ELSE "internal")
        /\ out[1].n = PageAt(root_page_num).n
        /\ \A i \in DOMAIN out :
              /\ out[i].kind = "leaf" =>
                    /\ i + out[i].n <= Len(out)
                    /\ \A m \in (i + 1)..(i + out[i].n) :
                          out[m].kind = "cell" /\ out[m].level = out[i].level + 1
                    /\ i + out[i].n < Len(out) => out[i + out[i].n + 1].kind # "cell"
              /\ out[i].kind = "internal" =>
                    Cardinality({m \in DOMAIN out :
                        /\ m > i /\ out[m].kind = "key"
                        /\ out[m].level = out[i].level + 1
                        /\ \A q \in (i + 1)..m : out[q].level > out[i].level})
                      = out[i].n
              /\ out[i].kind = "key" =>
                    /\ i > 1 /\ i < Len(out)
                    /\ out[i + 1].level = out[i].level
                    /\ out[i + 1].kind \in {"leaf", "internal"}
                    /\ CellKeysOf(SubtreeBefore(out, i)) # {}
                    /\ out[i].n = Max(CellKeysOf(SubtreeBefore(out, i)))
        /\ KeysInOrder(out)
        /\ CellKeysOf(out) = AllKeys

\* C24 (corrupt file): Pager::open on a backing store whose length is no
\* multiple of PAGE_SIZE is fatal with the corrupt-file message, no page
\* loaded; on any other store num_pages is length / PAGE_SIZE and the cache
\* starts empty.  The process started on the store ends at once in the
\* first case, and in the second holds no page but the root of a new table.
C24_CorruptFile ==
    /\ [](\A file_length \in StoreLengths :
            LET P == Pager_open_length(file_length)
            IN  /\ P.pages = <<>>
                /\ IF file_length % PAGE_SIZE # 0
                   THEN P.fatal = CorruptFile
                   ELSE /\ ~Failed(P)
                        /\ P.num_pages = file_length \div PAGE_SIZE
                        /\ P.num_pages * PAGE_SIZE = file_length)
    /\ [][\A file_length \in StoreLengths :
            OpenStore(file_length) =>
                IF file_length % PAGE_SIZE # 0
                THEN /\ pager'.fatal = CorruptFile /\ ~Running'
                     /\ pager'.pages = <<>>
                ELSE /\ Running'
                     /\ pager'.num_pages
                            = (IF file_length = 0 THEN 1 ELSE file_length \div PAGE_SIZE)
                     /\ DOMAIN pager'.pages = (IF file_length = 0 THEN {0} ELSE {})]_vars

\* C24 witness: a process has just ended on a store that ends in part of a
\* page, after a first process closed the file.
C24_Witness ==
    /\ last.op = "open" /\ last.res = "fatal" /\ pager.fatal = CorruptFile
    /\ opens = 2 /\ pager.pages = <<>>

SplitLeaves(c, f, key, value) ==
    With(get_unused_page_num(c.P), LAMBDA new_page_num :
    With(new_leaf_page(c.P, f, new_page_num), LAMBDA P1 :
        IF Failed(P1) THEN P1
        ELSE
        With(SplitLoop([Buf(P1, c.page_num) EXCEPT !.link = new_page_num],
                       [set_parent(Buf(P1, new_page_num), c.hdr.parent)
                           EXCEPT !.link = next_leaf(Buf(P1, c.page_num))],
                       LEAF_NODE_MAX_CELLS, c.cell_num, key, value), LAMBDA moved :
            SetBuf(SetBuf(P1, c.page_num,
                          [moved[1] EXCEPT !.n = LEAF_NODE_LEFT_SPLIT_COUNT]),
                   new_page_num,
                   [moved[2] EXCEPT !.n = LEAF_NODE_RIGHT_SPLIT_COUNT]))))

\* The pager on which leaf_node_split_and_insert calls parent.insert: the
\* two leaves, and the parent after update_key(old_max, new_max)
ParentUpdated(c, f, key, value) ==
    With(SplitLeaves(c, f, key, value), LAMBDA P2 :
        SetBuf(P2, c.hdr.parent,
               update_key(Buf(P2, c.hdr.parent),
                          get_node_max_key(Buf(c.P, c.page_num)),
                          get_node_max_key(Buf(P2, c.page_num)))))

\* The insert of key splits a leaf whose parent has room for one more key
SplitsUnderParent(key) ==
    With(Table_find(pager, file, key), LAMBDA c :
        /\ ~Failed(c.P)
        /\ ~DuplicateKey(c, key)
        /\ num_cells(Buf(c.P, c.page_num)) >= LEAF_NODE_MAX_CELLS
        /\ ~c.hdr.is_root
        /\ c.hdr.parent \in InternalPages
        /\ num_keys(PageAt(c.hdr.parent)) < INTERNAL_NODE_MAX_CELLS
        /\ ~Failed(SplitLeaves(c, file, key, RowFor(key, FALSE))))

\* C26 (internal insert in the middle): internal_node_insert of a child whose
\* max key is not greater than the right child's, with index =
\* find_child(child_max_key), leaves the parent's cells [0, index) as they
\* were, puts (child page, child max key) at cell index, moves the former
\* cells [index, original_num_keys) to index + 1 .. original_num_keys and
\* keeps right_child, also when a cell has to move.
C26_InsertInMiddle ==
    Running =>
        \A k \in 0..(MaxKey + 1) :
            SplitsUnderParent(k) =>
                LET c == Table_find(pager, file, k)
                    Pb == ParentUpdated(c, file, k, RowFor(k, FALSE))
                    new == get_unused_page_num(c.P)
                    parent == Buf(Pb, c.hdr.parent)
                    child_max_key == get_node_max_key(Buf(Pb, new))
                    right_max == get_node_max_key(Buf(Pb, right_child(parent)))
                    index == find_child(parent, child_max_key)
                    original_num_keys == num_keys(parent)
                    R == internal_node_insert(Pb, file, c.hdr.parent, new)
                    after == Buf(R, c.hdr.parent)
                IN  child_max_key <= right_max =>
                        /\ ~Failed(R)
                        /\ num_keys(after) = original_num_keys + 1
                        /\ right_child(after) = right_child(parent)
                        /\ \A i \in 0..(index - 1) :
                              /\ InternalCell(after, i) = InternalCell(parent, i)
                              /\ InternalKey(after, i) = InternalKey(parent, i)
                        /\ InternalCell(after, index) = new
                        /\ InternalKey(after, index) = child_max_key
                        /\ \A i \in index..(original_num_keys - 1) :
                              /\ InternalCell(after, i + 1) = InternalCell(parent, i)
                              /\ InternalKey(after, i + 1) = InternalKey(parent, i)

\* The insert of key splits the root leaf
SplitsRoot(key) ==
    With(Table_find(pager, file, key), LAMBDA c :
        /\ ~Failed(c.P)
        /\ ~DuplicateKey(c, key)
        /\ PageAt(root_page_num).type = NODE_LEAF
        /\ num_cells(Buf(c.P, c.page_num)) >= LEAF_NODE_MAX_CELLS
        /\ c.hdr.is_root)

\* C27 (root creation): create_new_root(right) after the split of the root
\* leaf copies the old root to a newly allocated page, other than page 0 and
\* the right child, and clears is_root on the copy; page 0 becomes an
\* internal node with is_root set, one key, cell 0 = (left page, max key of
\* the left child) and right_child = right; both children get parent 0; the
\* right child's cells, num_cells and next_leaf stay as they are, and the
\* left child's next_leaf is the right child.
C27_RootCreation ==
    Running =>
        \A k \in 0..(MaxKey + 1) :
            SplitsRoot(k) =>
                LET c == Table_find(pager, file, k)
                    P2 == SplitLeaves(c, file, k, RowFor(k, FALSE))
                    right == get_unused_page_num(c.P)
                    left == get_unused_page_num(P2)
                    R == create_new_root(P2, file, right)
                    root == Buf(R, root_page_num)
                IN  /\ ~Failed(R)
                    /\ R = execute_insert(pager, file, RowFor(k, FALSE)).P
                    /\ left \notin DOMAIN P2.pages
                    /\ left # root_page_num /\ left # right /\ right # root_page_num
                    /\ Buf(R, left) = [Buf(P2, root_page_num) EXCEPT !.is_root = FALSE,
                                                                    !.parent = root_page_num]
                    /\ Buf(R, left).type = NODE_LEAF
                    /\ next_leaf(Buf(R, left)) = right
                    /\ root.type = NODE_INTERNAL /\ root.is_root
                    /\ num_keys(root) = 1
                    /\ InternalCell(root, 0) = left
                    /\ InternalKey(root, 0) = get_node_max_key(Buf(R, left))
                    /\ right_child(root) = right
                    /\ Buf(R, right) = [Buf(P2, right) EXCEPT !.parent = root_page_num]
                    /\ ~Buf(R, right).is_root
                    /\ DOMAIN R.pages = {root_page_num, left, right}
                    /\ R.num_pages = 3

\* C27 witness: the root has just been created over its first two leaves,
\* a full left one and the right one it is linked to.
C27_Witness ==
    /\ Running /\ last.op = "insert" /\ last.res = "ok"
    /\ pager.num_pages = 3
    /\ PageAt(root_page_num).type = NODE_INTERNAL /\ PageAt(root_page_num).is_root
    /\ next_leaf(PageAt(InternalCell(PageAt(root_page_num), 0)))
           = right_child(PageAt(root_page_num))
    /\ Cardinality(AllKeys) = LEAF_NODE_MAX_CELLS + 1

\* C28 (internal insert of a new right child): when the new child's max key
\* is greater than the right child's max key, internal_node_insert appends
\* the old right child as cell original_num_keys with its own max key as
\* separator, makes the new child the right_child, leaves the cells
\* [0, original_num_keys) as they were and adds exactly one to num_keys.
C28_NewRightChild ==
    Running =>
        \A k \in 0..(MaxKey + 1) :
            SplitsUnderParent(k) =>
                LET c == Table_find(pager, file, k)
                    Pb == ParentUpdated(c, file, k, RowFor(k, FALSE))
                    new == get_unused_page_num(c.P)
                    parent == Buf(Pb, c.hdr.parent)
                    child_max_key == get_node_max_key(Buf(Pb, new))
                    right_max == get_node_max_key(Buf(Pb, right_child(parent)))
                    original_num_keys == num_keys(parent)
                    R == internal_node_insert(Pb, file, c.hdr.parent, new)
                    after == Buf(R, c.hdr.parent)
                IN  child_max_key > right_max =>
                        /\ ~Failed(R)
                        /\ num_keys(after) = original_num_keys + 1
                        /\ right_child(after) = new
                        /\ InternalCell(after, original_num_keys) = right_child(parent)
                        /\ InternalKey(after, original_num_keys) = right_max
                        /\ \A i \in 0..(original_num_keys - 1) :
                              /\ InternalCell(after, i) = InternalCell(parent, i)
                              /\ InternalKey(after, i) = InternalKey(parent, i)

\* The insert of key splits a leaf that is not the root
SplitsNonRootLeaf(key) ==
    With(Table_find(pager, file, key), LAMBDA c :
        /\ ~Failed(c.P)
        /\ ~DuplicateKey(c, key)
        /\ num_cells(Buf(c.P, c.page_num)) >= LEAF_NODE_MAX_CELLS
        /\ ~c.hdr.is_root
        /\ c.hdr.parent \in InternalPages
        /\ ~Failed(SplitLeaves(c, file, key, RowFor(key, FALSE))))

\* C29 (update_key during a split): update_key(old_max, new_max) overwrites
\* the one separator equal to old_max and leaves every other separator among
\* the parent's cells [0, num_keys), every child pointer and right_child as
\* they were; when the split leaf is the parent's right child no separator
\* among the cells [0, num_keys) changes.
C29_UpdateKeyFrame ==
    Running =>
        \A k \in 0..(MaxKey + 1) :
            SplitsNonRootLeaf(k) =>
                LET c == Table_find(pager, file, k)
                    P2 == SplitLeaves(c, file, k, RowFor(k, FALSE))
                    old_max == get_node_max_key(Buf(c.P, c.page_num))
                    new_max == get_node_max_key(Buf(P2, c.page_num))
                    parent == Buf(P2, c.hdr.parent)
                    after == update_key(parent, old_max, new_max)
                    n == num_keys(parent)
                    hit == {i \in 0..(n - 1) : InternalKey(parent, i) = old_max}
                IN  /\ num_keys(after) = n
                    /\ right_child(after) = right_child(parent)
                    /\ \A i \in 0..(n - 1) : InternalCell(after, i) = InternalCell(parent, i)
                    /\ \A i \in (0..(n - 1)) \ hit :
                           InternalKey(after, i) = InternalKey(parent, i)
                    /\ IF right_child(parent) = c.page_num
                       THEN hit = {}
                       ELSE /\ Cardinality(hit) = 1
                            /\ \A i \in hit : /\ InternalCell(parent, i) = c.page_num
                                              /\ InternalKey(after, i) = new_max

\* The insert of key goes into a leaf with room for one more cell
InsertsWithoutSplit(key) ==
    With(Table_find(pager, file, key), LAMBDA c :
        /\ ~Failed(c.P)
        /\ ~DuplicateKey(c, key)
        /\ Buf(c.P, c.page_num).type = NODE_LEAF
        /\ num_cells(Buf(c.P, c.page_num)) < LEAF_NODE_MAX_CELLS)

\* C30 (insert without split): an insert into a leaf with fewer than
\* LEAF_NODE_MAX_CELLS cells leaves the cells before the cursor as they were,
\* moves the cells at or after the cursor one slot to the right together with
\* their rows, writes the new key and row at the cursor and adds one to
\* num_cells; the leaf's parent, next_leaf and is_root, every other page and
\* num_pages stay as they were.
C30_InsertFrame ==
    Running =>
        \A k \in Keys :
            InsertsWithoutSplit(k) =>
                LET c == Table_find(pager, file, k)
                    node == Buf(c.P, c.page_num)
                    n == num_cells(node)
                    row == RowFor(k, k \in submitted)
                    r == execute_insert(pager, file, row)
                    after == Buf(r.P, c.page_num)
                IN  /\ r.res = "ok" /\ ~Failed(r.P)
                    /\ c.cell_num <= n
                    /\ num_cells(after) = n + 1
                    /\ \A i \in 0..(c.cell_num - 1) : LeafCell(after, i) = LeafCell(node, i)
                    /\ \A i \in c.cell_num..(n - 1) :
                           LeafCell(after, i + 1) = LeafCell(node, i)
                    /\ LeafKey(after, c.cell_num) = k
                    /\ deserialize_row(LeafValue(after, c.cell_num)) = row
                    /\ after.type = NODE_LEAF
                    /\ after.parent = node.parent
                    /\ next_leaf(after) = next_leaf(node)
                    /\ after.is_root = node.is_root
                    /\ r.P.num_pages = pager.num_pages
                    /\ DOMAIN r.P.pages = DOMAIN c.P.pages
                    /\ \A p \in DOMAIN c.P.pages \ {c.page_num} : Buf(r.P, p) = Buf(c.P, p)
                    /\ \A p \in PageNums \ {c.page_num} :
                           Buf(r.P, p) = PageAt(p)

\* C30 witness: an acknowledged insert has filled the right-most of two
\* leaves without a split, and the other pages are the root and a full leaf.
C30_Witness ==
    /\ Running /\ last.op = "insert" /\ last.res = "ok" /\ last.changed
    /\ pager.num_pages = 3
    /\ \A n \in LeafPages : num_cells(PageAt(n)) = LEAF_NODE_MAX_CELLS
    /\ Cardinality(AllKeys) = 2 * LEAF_NODE_MAX_CELLS

(* ------------------------------------------------------------------ *)
(* The cursor of a scan                                               *)
(* ------------------------------------------------------------------ *)

\* Table::start: find(0), and end_of_table when the leaf found has no cell
Table_start(P, f) ==
    With(Table_find(P, f, 0), LAMBDA c :
        [P |-> c.P, page_num |-> c.page_num, cell_num |-> c.cell_num,
         end_of_table |-> IF Failed(c.P) THEN TRUE
                          ELSE num_cells(Buf(c.P, c.page_num)) = 0])

\* Cursor::advance
advance(cursor, f) ==
    With(get_page(cursor.P, f, cursor.page_num), LAMBDA P1 :
        IF Failed(P1)
        THEN [cursor EXCEPT !.P = P1, !.end_of_table = TRUE]
        ELSE IF cursor.cell_num + 1 >= num_cells(Buf(P1, cursor.page_num))
        THEN IF next_leaf(Buf(P1, cursor.page_num)) = 0
             THEN [P |-> P1, page_num |-> cursor.page_num,
                   cell_num |-> cursor.cell_num + 1, end_of_table |-> TRUE]
             ELSE [P |-> P1, page_num |-> next_leaf(Buf(P1, cursor.page_num)),
                   cell_num |-> 0, end_of_table |-> FALSE]
        ELSE [P |-> P1, page_num |-> cursor.page_num,
              cell_num |-> cursor.cell_num + 1, end_of_table |-> FALSE])

\* The positions <<page_num, cell_num>> at which the loop of execute_select
\* finds the cursor with end_of_table false, in order; `ended` tells whether
\* end_of_table became true within fuel calls of advance
RECURSIVE ScanPath(_, _, _)
ScanPath(cursor, f, fuel) ==
    IF cursor.end_of_table THEN [path |-> <<>>, ended |-> ~Failed(cursor.P)]
    ELSE IF fuel = 0 THEN [path |-> <<>>, ended |-> FALSE]
    ELSE With(ScanPath(advance(cursor, f), f, fuel - 1), LAMBDA rest :
             [path |-> <<(<<cursor.page_num, cursor.cell_num>>)>> \o rest.path,
              ended |-> rest.ended])

\* Inserts of ids that leave room below the smallest one, and selects
ScanShift == 2
ScanKeys == ScanShift..(MaxKey + ScanShift)
NextScan == (\E k \in ScanKeys : ExecuteInsert(k)) \/ ExecuteSelect
SpecScan == Init /\ [][NextScan]_vars

\* The cells in use: <<page_num, cell_num>> for every cell of every leaf
StoredCells == {pc \in LeafPages \X (0..(LEAF_NODE_MAX_CELLS - 1)) :
                   pc[2] < num_cells(PageAt(pc[1]))}

\* The least element of a non-empty set of numbers
Min(S) == CHOOSE x \in S : \A y \in S : x <= y

\* C31 (scan termination): a scan from Table::start always ends; on an empty
\* table end_of_table is true at once and no row is produced; on a table of
\* n rows the cursor starts at the smallest key and advance is called exactly
\* n times before end_of_table becomes true; the cursor moves to cell 0 of
\* the next leaf when a leaf is exhausted, end_of_table is set only at the
\* leaf whose next_leaf is 0, and while end_of_table is false cell_num is
\* below the num_cells of the cursor's leaf.
C31_ScanTermination ==
    Running =>
        LET start == Table_start(pager, file)
            scan == ScanPath(start, file, ScanFuel)
            path == scan.path
            n == Cardinality(StoredCells)
        IN  /\ scan.ended
            /\ (n = 0) => (start.end_of_table /\ path = <<>>
                           /\ execute_select(pager, file).rows = <<>>)
            /\ Len(path) = n
            /\ Len(execute_select(pager, file).rows) = n
            /\ {path[i] : i \in 1..n} = StoredCells
            /\ (n > 0) => /\ ~start.end_of_table
                          /\ path[1][2] = 0
                          /\ LeafKey(PageAt(path[1][1]), 0) = Min(AllKeys)
            /\ \A i \in 1..n :
                  /\ path[i][1] \in LeafPages
                  /\ path[i][2] < num_cells(PageAt(path[i][1]))
            /\ \A i \in 1..(n - 1) :
                  IF path[i][2] + 1 < num_cells(PageAt(path[i][1]))
                  THEN path[i + 1] = <<path[i][1], path[i][2] + 1>>
                  ELSE /\ next_leaf(PageAt(path[i][1])) # 0
                       /\ path[i + 1] = <<next_leaf(PageAt(path[i][1])), 0>>
            /\ (n > 0) => /\ next_leaf(PageAt(path[n][1])) = 0
                          /\ path[n][2] + 1 = num_cells(PageAt(path[n][1]))

(* ------------------------------------------------------------------ *)
(* The writes of a close                                              *)
(* ------------------------------------------------------------------ *)

\* Pager::close: the page numbers handed to flush, in the order of the loop
RECURSIVE Flushed(_, _)
Flushed(P, i) ==
    IF i >= P.num_pages THEN <<>>
    ELSE IF i \notin DOMAIN P.pages THEN Flushed(P, i + 1)
    ELSE <<i>> \o Flushed(P, i + 1)

\* Pager::flush: the length of the file after lseek to page_num * PAGE_SIZE
\* and a write of PAGE_SIZE bytes
flush_length(file_length, page_num) ==
    IF page_num * PAGE_SIZE + PAGE_SIZE > file_length
    THEN page_num * PAGE_SIZE + PAGE_SIZE ELSE file_length

\* The length of the file after the flushes of log[j], log[j + 1], ...
RECURSIVE LengthAfter(_, _, _)
LengthAfter(file_length, log, j) ==
    IF j > Len(log) THEN file_length
    ELSE LengthAfter(flush_length(file_length, log[j]), log, j + 1)

\* C32 (close writes the whole cache): close writes every cached page with
\* index < num_pages exactly once, as a whole page at offset index *
\* PAGE_SIZE, and releases every slot; afterwards the stored bytes of each
\* such page are its last cached contents, the other stored pages are as
\* they were, and the length of the file is a multiple of PAGE_SIZE, so
\* that the next open does not report a corrupt file.
C32_CloseWritesCache ==
    [][(Running /\ ~open' /\ last'.op = "close") =>
          LET log == Flushed(pager, 0)
              cached == {i \in DOMAIN pager.pages : i < pager.num_pages}
              length == LengthAfter(pager.file_length, log, 1)
          IN  /\ {log[j] : j \in 1..Len(log)} = cached
              /\ Len(log) = Cardinality(cached)
              /\ cached = DOMAIN pager.pages
              /\ \A i \in cached : /\ i < Len(file')
                                   /\ file'[i + 1] = pager.pages[i]
              /\ \A i \in (0..(Len(file') - 1)) \ cached : file'[i + 1] = ReadPage(file, i)
              /\ Len(file') * PAGE_SIZE = length
              /\ length % PAGE_SIZE = 0
              /\ ~Failed(Pager_open_length(length))
              /\ ~Failed(Pager_open(file'))
              /\ Pager_open(file').num_pages = pager.num_pages
              /\ pager' = NoPager
              /\ DOMAIN pager'.pages = {}]_vars

\* C32 witness: a close has just written a root and two leaves.
C32_Witness ==
    /\ ~open /\ last.op = "close"
    /\ Len(file) >= 3
    /\ file[1].type = NODE_INTERNAL /\ file[1].is_root
    /\ pager = NoPager

(* ------------------------------------------------------------------ *)
(* New pages                                                          *)
(* ------------------------------------------------------------------ *)

\* Pager::new_internal_page
new_internal_page(P, f, page_num) ==
    With(get_page(P, f, page_num), LAMBDA P1 :
        IF Failed(P1) THEN P1
        ELSE SetBuf(P1, page_num, initialize_internal_node(Buf(P1, page_num))))

\* The pages and the parent values that the calls below name
MaxNewPage == 1
NewPages == 0..MaxNewPage

\* set_parent through a view of a cached page
SetParent(n, parent) ==
    /\ Running
    /\ n \in DOMAIN pager.pages
    /\ pager' = SetBuf(pager, n, set_parent(Buf(pager, n), parent))
    /\ last' = [op |-> "set_parent", res |-> "ok", stored |-> TRUE,
                changed |-> PagesChanged(pager, pager')]
    /\ out' = <<>>
    /\ UNCHANGED <<views, memory, file, open, submitted, acked, repeated, before, opens>>

\* set_root, set_num_cells (set_num_keys) and set_next_leaf (set_right_child)
\* through a view of a cached page
SetCounters(n, count) ==
    /\ Running
    /\ n \in DOMAIN pager.pages
    /\ pager' = SetBuf(pager, n, [set_root(Buf(pager, n), count # 0)
                                     EXCEPT !.n = count, !.link = count])
    /\ last' = [op |-> "set_counters", res |-> "ok", stored |-> TRUE,
                changed |-> PagesChanged(pager, pager')]
    /\ out' = <<>>
    /\ UNCHANGED <<views, memory, file, open, submitted, acked, repeated, before, opens>>

NewLeafPage(n) ==
    /\ Running
    /\ \E P \in {new_leaf_page(pager, file, n)} :
          /\ pager' = After(P)
          /\ last' = [op |-> "new_leaf_page", res |-> IF Failed(P) THEN "fatal" ELSE "ok",
                      stored |-> n \in DOMAIN pager.pages,
                      changed |-> PagesChanged(pager, P)]
    /\ out' = <<>>
    /\ UNCHANGED <<views, memory, file, open, submitted, acked, repeated, before, opens>>

NewInternalPage(n) ==
    /\ Running
    /\ \E P \in {new_internal_page(pager, file, n)} :
          /\ pager' = After(P)
          /\ last' = [op |-> "new_internal_page",
                      res |-> IF Failed(P) THEN "fatal" ELSE "ok",
                      stored |-> n \in DOMAIN pager.pages,
                      changed |-> PagesChanged(pager, P)]
    /\ out' = <<>>
    /\ UNCHANGED <<views, memory, file, open, submitted, acked, repeated, before, opens>>

\* The pager's calls that make and change nodes, on a new table
NextPages ==
    \/ \E n \in NewPages : NewLeafPage(n)
    \/ \E n \in NewPages : NewInternalPage(n)
    \/ \E n \in NewPages, parent \in NewPages : SetParent(n, parent)
    \/ \E n \in NewPages, count \in NewPages : SetCounters(n, count)

SpecPages == Init /\ [][NextPages]_vars

\* C33 (new page initialization): new_leaf_page(n) and new_internal_page(n)
\* give a node of the requested type with is_root false, parent 0 and zero
\* counters (num_cells and next_leaf of a leaf, num_keys of an internal
\* node), on a newly allocated page and on a page that already held a node.
C33_NewPageInitialized ==
    [][\A n \in NewPages :
          /\ NewLeafPage(n) =>
                /\ ~Failed(pager')
                /\ Buf(pager', n).type = NODE_LEAF
                /\ ~Buf(pager', n).is_root
                /\ Buf(pager', n).parent = 0
                /\ num_cells(Buf(pager', n)) = 0
                /\ next_leaf(Buf(pager', n)) = 0
          /\ NewInternalPage(n) =>
                /\ ~Failed(pager')
                /\ Buf(pager', n).type = NODE_INTERNAL
                /\ ~Buf(pager', n).is_root
                /\ Buf(pager', n).parent = 0
                /\ num_keys(Buf(pager', n)) = 0]_vars

\* Files other than the one the pager was opened on
OtherFiles == {<<>>, <<ZeroPage>>, <<ZeroPage, ZeroPage, ZeroPage>>}

\* C34 (no eviction): once page(n) has populated slot n the slot keeps its
\* buffer until close; every later page(n) gives that buffer with the writes
\* made to it, reads nothing from storage (the result does not depend on
\* what is stored) and does not change num_pages.
C34_NoEviction ==
    /\ [](Running =>
             \A n \in DOMAIN pager.pages :
                 /\ get_page(pager, file, n) = pager
                 /\ \A f \in OtherFiles : get_page(pager, f, n) = pager)
    /\ [][(Running /\ Running') => DOMAIN pager.pages \subseteq DOMAIN pager'.pages]_vars

\* C34 witness: a page loaded from the file in a later session has been
\* written in the cache and differs from what is stored.
C34_Witness ==
    /\ Running /\ opens > 1
    /\ \E n \in DOMAIN pager.pages :
          /\ n < Len(file)
          /\ Buf(pager, n) # ReadPage(file, n)
          /\ Buf(get_page(pager, file, n), n) = Buf(pager, n)

\* MAX_CELLS of a leaf in the build: SPACE_FOR_CELLS / CELL_SIZE.  The common
\* header is size_of::<Header>(): parent, and the two one-byte fields padded
\* to the alignment of parent; num_cells and next_leaf follow it.
BuildLeafHeaderSize == (U32_SIZE + U32_SIZE) + U32_SIZE + U32_SIZE
BuildLeafMaxCells == (PAGE_SIZE - BuildLeafHeaderSize) \div (U32_SIZE + ROW_SIZE)

\* C35 (two-level tree): internal nodes are never split, so page 0 is the
\* only page that is ever an internal node; the tree has at most two levels,
\* every page other than the root is a leaf whose parent is page 0, and there
\* are at most INTERNAL_NODE_MAX_CELLS + 1 = 4 leaves, so at most 4 times
\* the cells of a leaf stored rows (4 * 13 = 52 in the build).
C35_TwoLevels ==
    Running =>
        /\ InternalPages \subseteq {root_page_num}
        /\ \A n \in PageNums \ {root_page_num} :
              /\ PageAt(n).type = NODE_LEAF
              /\ PageAt(n).parent = root_page_num
              /\ PageAt(root_page_num).type = NODE_INTERNAL
              /\ n \in Children(root_page_num)
        /\ PageAt(root_page_num).type = NODE_INTERNAL =>
              Children(root_page_num) \subseteq LeafPages
        /\ Cardinality(LeafPages) <= INTERNAL_NODE_MAX_CELLS + 1
        /\ INTERNAL_NODE_MAX_CELLS + 1 = 4
        /\ Cardinality(StoredCells) <= 4 * LEAF_NODE_MAX_CELLS
        /\ Len(execute_select(pager, file).rows) <= 4 * LEAF_NODE_MAX_CELLS
        /\ BuildLeafMaxCells = 13 /\ 4 * BuildLeafMaxCells = 52

\* C35 witness: the root over four leaves, the most it can have, with seven
\* rows in them.
C35_Witness ==
    /\ Running /\ last.op = "insert" /\ last.res = "ok"
    /\ InternalPages = {root_page_num}
    /\ Cardinality(Children(root_page_num)) = INTERNAL_NODE_MAX_CELLS + 1
    /\ Cardinality(StoredCells) >= 4 * LEAF_NODE_MAX_CELLS - 1

(* ------------------------------------------------------------------ *)
(* Sessions                                                           *)
(* ------------------------------------------------------------------ *)

\* How many processes, one after the other, open the file
MaxSessions == 3

\* .exit: Table::close, and the end of the process
CloseSession ==
    /\ Running
    /\ opens < MaxSessions
    /\ file' = Pager_close(pager, file)
    /\ pager' = NoPager
    /\ open' = FALSE
    /\ out' = <<>>
    /\ last' = [op |-> "close", res |-> "ok", stored |-> FALSE, changed |-> FALSE]
    /\ UNCHANGED <<views, memory, submitted, acked, repeated, before, opens>>

\* The next process: Table::open on the file
OpenSession ==
    /\ ~open
    /\ ~Failed(pager)
    /\ opens < MaxSessions
    /\ opens' = opens + 1
    /\ pager' = Table_open(file)
    /\ open' = TRUE
    /\ out' = <<>>
    /\ last' = [op |-> "open", res |-> "ok", stored |-> FALSE, changed |-> FALSE]
    /\ UNCHANGED <<views, memory, file, submitted, acked, repeated, before>>

\* Inserts of ids not submitted before in every session but the last, which
\* selects
NextSessions ==
    \/ \E k \in ScanKeys : opens < MaxSessions /\ k \notin submitted /\ ExecuteInsert(k)
    \/ opens = MaxSessions /\ ExecuteSelect
    \/ CloseSession
    \/ OpenSession

SpecSessions == Init /\ [][NextSessions]_vars

\* The elements of a set of numbers in ascending order
RECURSIVE SortedSeq(_)
SortedSeq(S) == IF S = {} THEN <<>> ELSE <<Min(S)>> \o SortedSeq(S \ {Min(S)})

\* C36 (accumulation across sessions): after the inserts of S1, a close, a
\* reopen, the inserts of S2 (disjoint from S1), a close and a reopen, select
\* yields the rows of S1 and S2 in ascending order; a reopen does not
\* initialize page 0 again and sets num_pages to the number of stored pages,
\* so that a page allocated later does not reuse the number of a stored
\* page; a close leaves the stored pages that the session did not touch as
\* they were.
C36_Accumulation ==
    /\ []((Running /\ opens = MaxSessions /\ last.op = "select") =>
             /\ last.res = "ok"
             /\ [i \in 1..Len(out) |-> out[i].id] = SortedSeq(submitted)
             /\ {out[i] : i \in 1..Len(out)} = acked)
    /\ []((Running /\ opens > 1) =>
             /\ get_unused_page_num(pager) >= Len(file)
             /\ pager.num_pages >= Len(file))
    /\ [][OpenSession =>
             /\ ~Failed(pager')
             /\ Len(file) > 0 =>
                   /\ pager'.num_pages = Len(file)
                   /\ (PageAt(root_page_num))' = file[1]
                   /\ DOMAIN pager'.pages = {}]_vars
    /\ [][CloseSession =>
             /\ Len(file') >= Len(file)
             /\ \A i \in 1..Len(file) :
                    (i - 1) \notin DOMAIN pager.pages => file'[i] = file[i]]_vars

\* The panic of num_cells() - 1 or num_keys() - 1 on an empty node
SubtractOverflow == "attempt to subtract with overflow"

\* The insert of key splits a leaf
SplitsLeaf(key) ==
    With(Table_find(pager, file, key), LAMBDA c :
        /\ ~Failed(c.P)
        /\ ~DuplicateKey(c, key)
        /\ num_cells(Buf(c.P, c.page_num)) >= LEAF_NODE_MAX_CELLS
        /\ ~Failed(SplitLeaves(c, file, key, RowFor(key, FALSE))))

\* C37 (no unsigned underflow in get_max_key): during any sequence of
\* inserts get_max_key is never evaluated on a node with zero cells or zero
\* keys: not on the leaf that is split, before or after the split, not on
\* the new leaf, not on the left child in create_new_root and not on the
\* child or the right child in internal_node_insert.
C37_NoUnderflow ==
    /\ pager.fatal # SubtractOverflow
    /\ Running =>
        \A k \in 0..(MaxKey + 1) :
            /\ execute_insert(pager, file, RowFor(k, k \in submitted)).P.fatal
                   # SubtractOverflow
            /\ SplitsLeaf(k) =>
                   LET c == Table_find(pager, file, k)
                       P2 == SplitLeaves(c, file, k, RowFor(k, FALSE))
                       new == get_unused_page_num(c.P)
                   IN  /\ ~MaxKeyOverflows(Buf(c.P, c.page_num))
                       /\ ~MaxKeyOverflows(Buf(P2, c.page_num))
                       /\ ~MaxKeyOverflows(Buf(P2, new))
                       /\ ~c.hdr.is_root =>
                              LET parent == Buf(P2, c.hdr.parent)
                                  P3 == get_page(P2, file, right_child(parent))
                              IN  /\ parent.type = NODE_INTERNAL
                                  /\ ~Failed(P3)
                                  /\ ~MaxKeyOverflows(Buf(P3, right_child(parent)))
                                  /\ ~MaxKeyOverflows(parent)

\* C37 witness: a split under the root has just evaluated get_max_key on the
\* split leaf, on the new leaf and on the right child.
C37_Witness ==
    /\ Running /\ last.op = "insert" /\ last.res = "ok"
    /\ pager.num_pages = 4
    /\ num_keys(PageAt(root_page_num)) = 2
    /\ \A n \in LeafPages : ~MaxKeyOverflows(PageAt(n))

(* ------------------------------------------------------------------ *)
(* Storage                                                            *)
(* ------------------------------------------------------------------ *)

\* FileStorage on a file of whole pages.  read past the end of the file
\* reads no byte and leaves buf as it is; a page in a gap reads as zeros.
FileStorage_size(f) == Len(f) * PAGE_SIZE
FileStorage_read(f, page_num, buf) == IF page_num < Len(f) THEN f[page_num + 1] ELSE buf
FileStorage_write(f, page_num, buf) == flush(f, page_num, buf)

\* InMemoryStorage on the HashMap of one name
InMemoryStorage_size(pages) == Cardinality(DOMAIN pages) * PAGE_SIZE
InMemoryStorage_read(pages, page_num, buf) ==
    IF page_num \in DOMAIN pages THEN pages[page_num] ELSE buf
InMemoryStorage_write(pages, page_num, buf) ==
    [n \in DOMAIN pages \cup {page_num} |-> IF n = page_num THEN buf ELSE pages[n]]

\* InMemoryStorageFactory::open
InMemoryStorageFactory_open(stores, filename) ==
    IF filename \in DOMAIN stores THEN stores
    ELSE [n \in DOMAIN stores \cup {filename} |->
             IF n = filename THEN <<>> ELSE stores[n]]

\* The name, the page numbers and the buffers of the calls below
StoreName == "foobar"
MaxStoragePage == 2
StoragePages == 0..MaxStoragePage
Buffers == {ZeroPage, [initialize_leaf_node(ZeroPage) EXCEPT !.n = 1]}

\* No process has opened anything yet
InitStorage ==
    /\ file = <<>>
    /\ pager = NoPager
    /\ open = FALSE
    /\ out = <<>>
    /\ last = [op |-> "none", res |-> "ok", stored |-> FALSE, changed |-> FALSE]
    /\ submitted = {}
    /\ acked = {}
    /\ repeated = FALSE
    /\ before = NoSnapshot
    /\ opens = 0
    /\ memory = <<>>
    /\ views = <<>>

\* Both factories open StoreName; opened again, each gives what it holds
StorageOpen ==
    /\ memory' = InMemoryStorageFactory_open(memory, StoreName)
    /\ open' = TRUE
    /\ out' = <<>>
    /\ last' = [op |-> "storage_open", res |-> "ok", stored |-> open, changed |-> FALSE]
    /\ UNCHANGED <<views, file, pager, submitted, acked, repeated, before, opens>>

\* write(page_num, buf) on both storages
StorageWrite(page_num, buf) ==
    /\ open
    /\ file' = FileStorage_write(file, page_num, buf)
    /\ memory' = [memory EXCEPT ![StoreName] = InMemoryStorage_write(@, page_num, buf)]
    /\ out' = <<>>
    /\ last' = [op |-> "storage_write", res |-> "ok", stored |-> FALSE, changed |-> TRUE]
    /\ UNCHANGED <<views, pager, open, submitted, acked, repeated, before, opens>>

\* read(page_num, buf) on both storages: out holds the two buffers
StorageRead(page_num, buf) ==
    /\ open
    /\ out' = <<FileStorage_read(file, page_num, buf),
                InMemoryStorage_read(memory[StoreName], page_num, buf)>>
    /\ last' = [op |-> "storage_read", res |-> "ok", stored |-> FALSE, changed |-> FALSE]
    /\ UNCHANGED <<views, file, memory, pager, open, submitted, acked, repeated, before, opens>>

\* size() on both storages: out holds the two sizes
StorageSize ==
    /\ open
    /\ out' = <<FileStorage_size(file), InMemoryStorage_size(memory[StoreName])>>
    /\ last' = [op |-> "storage_size", res |-> "ok", stored |-> FALSE, changed |-> FALSE]
    /\ UNCHANGED <<views, file, memory, pager, open, submitted, acked, repeated, before, opens>>

NextStorage ==
    \/ StorageOpen
    \/ \E page_num \in StoragePages, buf \in Buffers : StorageWrite(page_num, buf)
    \/ \E page_num \in StoragePages, buf \in Buffers : StorageRead(page_num, buf)
    \/ StorageSize

SpecStorage == InitStorage /\ [][NextStorage]_vars

\* C38 (storage implementations agree): after any sequence of write, read
\* and size on page numbers the in-memory storage gives what the file-backed
\* one gives, the same bytes for a read and the same size, also when pages
\* are written out of order or with gaps, and a page written under a name is
\* read back after the storage is opened again under that name.
C38_StoragesAgree ==
    /\ [](last.op \in {"storage_read", "storage_size"} => out[1] = out[2])
    /\ [][StorageOpen =>
             /\ file' = file
             /\ open => \A n \in StoragePages, buf \in Buffers :
                    InMemoryStorage_read(memory'[StoreName], n, buf)
                        = InMemoryStorage_read(memory[StoreName], n, buf)]_vars

(* ------------------------------------------------------------------ *)
(* Node views and their header copies                                 *)
(* ------------------------------------------------------------------ *)

\* CommonNode::new on the buffer of page page_num: the view holds the
\* buffer and the header it deserialized from it
CommonNode_new(P, page_num) ==
    [page_num |-> page_num, header |-> Header(Buf(P, page_num))]

\* CommonNode::node_type, is_root and parent: the fields of the view's header
CommonNode_node_type(node) == node.header.type
CommonNode_is_root(node) == node.header.is_root
CommonNode_parent(node) == node.header.parent

\* CommonNode::set_node_type: the type is set in the view's header and that
\* header is serialized into the buffer p
CommonNode_set_node_type(node, p, node_type) ==
    [p EXCEPT !.type = node_type,
              !.is_root = node.header.is_root,
              !.parent = node.header.parent]

\* The view slots of the runs below
MaxViews == 2
ViewSlots == 1..MaxViews
NodeTypes == {NODE_INTERNAL, NODE_LEAF}

\* CommonNode::new on a cached page, the view kept in a slot
ViewNew(v, n) ==
    /\ Running
    /\ n \in DOMAIN pager.pages
    /\ views' = [u \in DOMAIN views \cup {v} |->
                    IF u = v THEN CommonNode_new(pager, n) ELSE views[u]]
    /\ last' = [op |-> "view", res |-> "ok", stored |-> TRUE, changed |-> FALSE]
    /\ out' = <<>>
    /\ UNCHANGED <<memory, file, pager, open, submitted, acked, repeated, before, opens>>

\* set_node_type through a held view
ViewSetNodeType(v, node_type) ==
    /\ Running
    /\ v \in DOMAIN views
    /\ pager' = SetBuf(pager, views[v].page_num,
                       CommonNode_set_node_type(views[v],
                           Buf(pager, views[v].page_num), node_type))
    /\ views' = [views EXCEPT ![v].header.type = node_type]
    /\ last' = [op |-> "set_node_type", res |-> "ok", stored |-> TRUE,
                changed |-> PagesChanged(pager, pager')]
    /\ out' = <<>>
    /\ UNCHANGED <<memory, file, open, submitted, acked, repeated, before, opens>>

\* set_root through a held view: the buffer's header is read, changed and
\* written back, and the view's header takes the new flag
ViewSetRoot(v, is_root) ==
    /\ Running
    /\ v \in DOMAIN views
    /\ pager' = SetBuf(pager, views[v].page_num,
                       set_root(Buf(pager, views[v].page_num), is_root))
    /\ views' = [views EXCEPT ![v].header.is_root = is_root]
    /\ last' = [op |-> "set_root", res |-> "ok", stored |-> TRUE,
                changed |-> PagesChanged(pager, pager')]
    /\ out' = <<>>
    /\ UNCHANGED <<memory, file, open, submitted, acked, repeated, before, opens>>

\* set_parent through a held view, likewise
ViewSetParent(v, parent) ==
    /\ Running
    /\ v \in DOMAIN views
    /\ pager' = SetBuf(pager, views[v].page_num,
                       set_parent(Buf(pager, views[v].page_num), parent))
    /\ views' = [views EXCEPT ![v].header.parent = parent]
    /\ last' = [op |-> "set_parent", res |-> "ok", stored |-> TRUE,
                changed |-> PagesChanged(pager, pager')]
    /\ out' = <<>>
    /\ UNCHANGED <<memory, file, open, submitted, acked, repeated, before, opens>>

\* Views of the pages of a new table, and the header writes through them
NextViews ==
    \/ \E n \in NewPages : NewLeafPage(n)
    \/ \E v \in ViewSlots, n \in NewPages : ViewNew(v, n)
    \/ \E v \in ViewSlots, node_type \in NodeTypes : ViewSetNodeType(v, node_type)
    \/ \E v \in ViewSlots, is_root \in BOOLEAN : ViewSetRoot(v, is_root)
    \/ \E v \in ViewSlots, parent \in NewPages : ViewSetParent(v, parent)

SpecViews == Init /\ [][NextViews]_vars

\* C39 (views stay coherent with their page): node_type(), is_root() and
\* parent() of a held view return what the buffer of its page holds now,
\* also after the header was changed through another view of that page.
C39_ViewsCoherent ==
    \A v \in DOMAIN views :
        LET p == Buf(pager, views[v].page_num) IN
            /\ CommonNode_node_type(views[v]) = p.type
            /\ CommonNode_is_root(views[v]) = p.is_root
            /\ CommonNode_parent(views[v]) = p.parent

\* C40 (set_node_type changes only the type): set_node_type through a view
\* sets the type stored in the page and leaves the is_root and parent stored
\* in the page as they were just before the call, whichever view wrote them.
C40_SetNodeTypeFrame ==
    [][\A v \in ViewSlots, node_type \in NodeTypes :
          ViewSetNodeType(v, node_type) =>
              LET n == views[v].page_num IN
                  /\ Buf(pager', n).type = node_type
                  /\ Buf(pager', n).is_root = Buf(pager, n).is_root
                  /\ Buf(pager', n).parent = Buf(pager, n).parent]_vars

====
